---- MODULE Spec2Model ----
(***************************************************************************)
(* A model of the Lox credential protocols of lox-library (src/proto/*.rs, *)
(* src/migration_table.rs).                                                *)
(*                                                                         *)
(* The group algebra is abstracted symbolically:                           *)
(*  - a scalar attribute is a natural number, a bucket attribute is the    *)
(*    pair <<bucket_id, key>> that to_scalar packs;                        *)
(*  - a MAC (P, Q) under an issuer key is the field "key" of a credential  *)
(*    record: the generation of the issuer key that computed it;           *)
(*  - a request carries the credential it was built from ("cred") and the  *)
(*    attribute values it reveals or commits to; the request proof         *)
(*    verifies exactly when those values are the attributes the MAC was    *)
(*    computed on and the proof's linking equations hold (soundness and    *)
(*    completeness of the compact proofs, unforgeability of the MAC);      *)
(*  - a jointly chosen id is id_client + id_server;                         *)
(*  - the credentials users hold are inputs of the handlers: any credential *)
(*    of the family UserLox / UserInvitations / UserMigrations that carries *)
(*    a MAC of a key the issuer has generated;                              *)
(*  - in SpecFollowed, SpecBlockages, SpecInvitations and SpecRedeem one    *)
(*    user is followed instead: the family is the credential that user      *)
(*    holds ("held"), which every accepted run replaces by the credential   *)
(*    the issuer gave in exchange;                                          *)
(*  - SHA-256 is collision-free: a label of the encrypted migration table   *)
(*    is the hash input itself.                                            *)
(***************************************************************************)
EXTENDS Integers, Sequences, FiniteSets, TLC

\* ---------------------------------------------------------------- bounds
\* Number of issuer-side events (a key rotation of any credential type, a
\* bucket getting blocked, a change of day) in a run of the whole system.
MaxEvents == 1
\* Number of rotations of the bridge-distribution key in a run of the
\* open-invitation protocol alone.
MaxBridgedbRotations == 2
\* Number of times the day changes in a run of the open-invitation protocol
\* alone.
MaxAdvances == 1
\* Number of times the day changes while one user is followed.
MaxFollowedAdvances == 16
\* The same while the user also issues and redeems invitations.
MaxInvitationAdvances == 4
\* The rotations of the invitation keys and the changes of day in the run of
\* an invited user.
MaxInvitationRotations == 2
MaxRedeemAdvances == 3
\* The largest batch of invitations of the credential a user starts with, and
\* the rotations of the Lox key while the batch is used.
MaxBatch == 2
MaxBatchRotations == 2
\* The promises LoxService creates, the Resolve and Reject calls made on
\* them, and the ids Uuid::new_v4 draws from.
MaxPromises == 2
MaxPromiseCalls == 3
MaxUuids == 3

\* ------------------------------------------------------- program constants
MAX_LEVEL == 4
INVITATION_EXPIRY == 15
MIN_TRUST_LEVEL == 3
LEVEL_INTERVAL == <<0, 14, 28, 56, 84>>
\* The invitations of the level that is reached, not of the level left.
LEVEL_INVITATIONS_reached == <<2, 4, 6, 8, 8>>
LEVEL_INVITATIONS == <<0, 2, 4, 6, 8>>
MAX_BLOCKAGES == <<0, 4, 3, 2, 2>>
\* From<MigrationType> for Scalar
MigrationType == [TrustUpgrade |-> 0, Blockage |-> 1]

\* Rust arrays are indexed from 0, TLA+ sequences from 1.
Index(arr, i) == arr[i + 1]
InRange(arr, i) == i >= 0 /\ i < Len(arr)

\* --------------------------------------------------------- the environment
\* The day today() returns when the run starts.
StartDay == 1000 + 0
\* The steps by which the day counter is advanced.
DaySteps == {1}
\* The same while one user is followed: the shortest LEVEL_INTERVAL.
FollowedDaySteps == {14}
RedeemDaySteps == {1, 7}

\* The bridge table: bucket 1 is an open-invitation bucket, buckets 2 and 3
\* are trusted buckets.  Bucket 9 is named by some open-invitation tokens but
\* is not (or no longer) in the table.
BucketIds == {1, 2, 3}
TokenBuckets == {1, 9}
bridge_table_buckets == BucketIds
bridge_table_keys == [b \in BucketIds |-> 100 + b]

\* bridge_table::to_scalar packs the bucket id and its key in one scalar.
to_scalar(bucket_id, bucket_key) == <<bucket_id, bucket_key>>
BucketAttr(b) == to_scalar(b, bridge_table_keys[b])
NoBucket == <<0, 0>>

VARIABLES
    today,                \* BridgeAuth::today()
    lox_key,              \* lox_priv / lox_pub: the current Lox key
    old_lox_keys,         \* old_keys.lox_keys
    id_filter,            \* id_filter
    old_lox_filter,       \* old_filters.lox_filter
    invitation_key,       \* invitation_priv / invitation_pub
    old_invitation_keys,  \* old_keys.invitation_keys
    inv_id_filter,        \* inv_id_filter
    old_invitation_filter,\* old_filters.invitation_filter
    bridgedb_pub,         \* bridgedb_pub
    old_bridgedb_keys,    \* old_keys.bridgedb_key
    bridgedb_pub_filter,  \* bridgedb_pub_filter
    old_openinv_filter,   \* old_filters.openinv_filter
    blockage_migration_table, \* blockage_migration_table.table
    advances,             \* number of times the day was advanced
    last,                 \* the last exchange: request, result, response
    held,                 \* the credentials of the one user that is followed
    batch,                \* the invitations of a batch: its size, those issued
    service               \* LoxService: its promises and its LoxData

filters == <<id_filter, old_lox_filter, inv_id_filter, old_invitation_filter,
             bridgedb_pub_filter, old_openinv_filter>>
keys == <<lox_key, old_lox_keys, invitation_key, old_invitation_keys,
          bridgedb_pub, old_bridgedb_keys>>
issuer == <<filters, keys, blockage_migration_table>>
vars == <<today, issuer, advances, last, held, batch, service>>

\* The elements of a Vec.
Range(v) == {v[j] : j \in DOMAIN v}

\* ------------------------------------------------------------ credentials
\* cred::Lox.  "key" stands for the MAC (P, Q): the Lox key that computed it.
Lox(k, i, b, l, s, r, bl) ==
    [key |-> k, id |-> i, bucket |-> b, trust_level |-> l, level_since |-> s,
     invites_remaining |-> r, blockages |-> bl]
NoLox == Lox(0, 0, NoBucket, 0, 0, 0, 0)

\* An open-invitation token: (invite_id, bucket_id) signed by BridgeDb under
\* the bridge-distribution key "key" (0: no valid signature).
Token(i, b, k) == [invite_id |-> i, bucket_id |-> b, key |-> k]
\* The tokens users hold: for every bridge-distribution key generated so
\* far, a token for bucket 1 and a token for bucket 9, and the same with a
\* signature that does not verify.  Invitation ids are unique.
BridgedbKeys == {bridgedb_pub} \cup Range(old_bridgedb_keys)
Tokens ==
    {Token(10 * k + b, b, k) : b \in TokenBuckets, k \in BridgedbKeys}
        \cup {Token(1, 1, 0)}

\* BridgeDb::verify(invite, pubkey) is Ok((invite_id, bucket_id)) exactly
\* when the token's signature verifies under pubkey.
BridgeDb_verify(invite, pubkey) == invite.key = pubkey

\* The shares of a jointly chosen id: Scalar::random on each side.
ClientShares == {20}

\* cred::Migration, MACed under the migration key (never rotated).
Migration(i, f, t, ty) ==
    [lox_id |-> i, from_bucket |-> f, to_bucket |-> t, migration_type |-> ty]
NoMigration == Migration(0, NoBucket, NoBucket, 0)

\* cred::Invitation; "key" is the invitation key that computed the MAC.
Invitation(k, i, d, b, bl) ==
    [key |-> k, inv_id |-> i, date |-> d, bucket |-> b, blockages |-> bl]
NoInvitation == Invitation(0, 0, 0, NoBucket, 0)

\* cred::BucketReachability, MACed under the reachability key.
BucketReachability(d, b) == [date |-> d, bucket |-> b]

\* What one user holds: a Lox credential and an Invitation.
Held(c, i) == [lox |-> c, inv |-> i]
NoHeld == Held(NoLox, NoInvitation)
\* The invitations of the Lox credential a user starts with: n is its
\* invites_remaining, issued counts the Responses of handle_issue_invite to
\* that credential and its successors.
NoBatch == [n |-> 0, issued |-> 0]
\* LoxData::default(): no credentials, no public keys.
LoxData(credentials, pub_keys) == [credentials |-> credentials, pub_keys |-> pub_keys]
\* A LoxService that has created no promise.
NoService ==
    [promises |-> <<>>, stack |-> <<>>, calls |-> 0, call |-> <<0, "none", [op |-> "none"]>>,
     rv |-> "none", data |-> LoxData(<<>>, 0)]

\* The Lox credentials users hold.  When no single user is followed: for
\* every Lox key generated so far, an untrusted credential in open-invitation
\* bucket 1 and a level 3 credential in bucket 2.  Credential ids are unique.
\* When one user is followed: the credential of that user.
LoxKeys == {lox_key} \cup Range(old_lox_keys)
UserLox ==
    IF held = NoHeld
    THEN UNION {{Lox(k, 10 * k + 1, BucketAttr(1), 0, StartDay - 30, 0, 0),
                 Lox(k, 10 * k + 3, BucketAttr(2), 3, StartDay - 56, 4, 0)} : k \in LoxKeys}
    ELSE {held.lox}

\* The Migration credentials users hold: trust_promotion gave the untrusted
\* users a TrustUpgrade migration from bucket 1 to bucket 2, check_blockage
\* gave the users of (blocked) bucket 2 a Blockage migration to bucket 3.
BlockedTo(b) == IF b = 3 THEN 2 ELSE 3
MigrationOf(c) ==
    IF c.trust_level = 0
    THEN Migration(c.id, c.bucket, BucketAttr(2), MigrationType.TrustUpgrade)
    ELSE Migration(c.id, c.bucket, BucketAttr(BlockedTo(c.bucket[1])),
                   MigrationType.Blockage)
UserMigrations ==
    {MigrationOf(c) : c \in {d \in UserLox : d.trust_level = 0
            \/ <<d.bucket[1], BlockedTo(d.bucket[1])>> \in blockage_migration_table}}

\* The Invitation credentials users hold: one per invitation key, issued
\* the day before the run starts to a user of bucket 2.
InvitationKeys == {invitation_key} \cup Range(old_invitation_keys)
UserInvitations ==
    IF held = NoHeld
    THEN {Invitation(k, 10 * k + 5, StartDay - 1, BucketAttr(2), 0) : k \in InvitationKeys}
    ELSE {held.inv} \ {NoInvitation}

\* The reachability credentials users hold: the one of today and the one of
\* the day before the run starts, for the buckets of the bridge table.
UserReach ==
    {BucketReachability(d, BucketAttr(b)) : d \in {today, StartDay - 1}, b \in BucketIds}

\* A bucket lookup that finds every bucket id.
contains_any_key(map, k) == TRUE

\* HashMap::contains_key
contains_key(map, k) == k \in map

\* dup_filter: check(k) is Seen iff k is in the set; filter(k) also inserts.
Seen(f, k) == k \in f
Insert(f, k) == f \cup {k}

\* RistrettoPoint::is_identity on a point of a Request or Response.  The
\* messages the request functions and the handlers build have no identity
\* point; WithIdentity is the message with the named points replaced by the
\* identity.
is_identity(msg, point) == "identity" \in DOMAIN msg /\ point \in msg.identity
WithIdentity(msg, points) ==
    [f \in DOMAIN msg \cup {"identity"} |-> IF f = "identity" THEN points ELSE msg[f]]

\* ---------------------------------------------------------- call records
NoRequest == [op |-> "none"]
NoResponse == [op |-> "none"]
NoCall ==
    [call |-> "none", req |-> NoRequest, res |-> "none", why |-> "",
     proofOk |-> FALSE, checksOk |-> FALSE, spent |-> FALSE, consumed |-> FALSE,
     replay |-> FALSE, resp |-> NoResponse, client |-> "none", cred |-> NoLox,
     pub |-> <<0, 0>>]

\* The identifier a request reveals, and every filter entry of its kind.
IdOf(req) ==
    CASE req.op = "open_invite" -> req.invite.invite_id
      [] req.op \in {"redeem_invite", "update_invite"} -> req.inv_id
      [] OTHER -> req.id
SpentIds(op) ==
    CASE op = "open_invite" -> bridgedb_pub_filter \cup UNION Range(old_openinv_filter)
      [] op \in {"redeem_invite", "update_invite"} ->
            inv_id_filter \cup UNION Range(old_invitation_filter)
      [] OTHER -> id_filter \cup UNION Range(old_lox_filter)

\* The issuer's share is a fresh value: no two runs that spend an identifier
\* draw the same one.
ServerShares ==
    {30 + Cardinality(SpentIds("level_up")) + Cardinality(SpentIds("redeem_invite"))
        + Cardinality(SpentIds("open_invite"))}

\* The outcome of a handler: res is "Response", "VerificationFailure" or
\* "panic" and why names the check that failed; proofOk: the request's
\* proof verifies; checksOk: the handler's other checks on the request pass.
Outcome(res, why, proofOk, checksOk, resp) ==
    [res |-> res, why |-> why, proofOk |-> proofOk, checksOk |-> checksOk,
     resp |-> resp]
\* A handler was called with req; spent: the identifier was in
\* a filter when the handler was called; consumed: the call changed a
\* filter; replay: req is the request the previous call answered.  The
\* request is kept for the calls that are answered.
Call(c, req, o, consumed) ==
    [call |-> c, req |-> IF o.res = "Response" THEN req ELSE NoRequest,
     res |-> o.res, why |-> o.why, proofOk |-> o.proofOk,
     checksOk |-> o.checksOk, spent |-> (IdOf(req) \in SpentIds(req.op)),
     consumed |-> consumed,
     replay |-> (last.res = "Response" /\ last.req = req),
     resp |-> o.resp, client |-> "none", cred |-> NoLox, pub |-> <<0, 0>>]
Err(e) == [res |-> e, cred |-> NoLox]
Ok(c) == [res |-> "Ok", cred |-> c]

\* ------------------------------------------------------------ open_invite
\* open_invite::request(invite)
open_invite_request(invite, id_client) ==
    [req |-> [op |-> "open_invite", invite |-> invite, id_client |-> id_client,
              piUserBlinding |-> TRUE],
     state |-> [id_client |-> id_client]]

\* The requests handle_open_invite may receive: those open_invite::request
\* builds, and the same with a user-blinding proof that does not verify.
OpenInviteRequests ==
    LET honest == {open_invite_request(t, c).req : t \in Tokens, c \in ClientShares}
    IN  honest \cup {[r EXCEPT !.piUserBlinding = FALSE] : r \in honest}

\* The loop over old_keys.bridgedb_key: old_token after the loop, as the
\* index of the key (0: None).
RECURSIVE VerifyOldKeys(_, _, _, _)
VerifyOldKeys(invite, old_keys, i, old_token) ==
    IF i > Len(old_keys) THEN old_token
    ELSE VerifyOldKeys(invite, old_keys, i + 1,
                       IF BridgeDb_verify(invite, old_keys[i]) THEN i ELSE 0)

\* BridgeAuth::handle_open_invite: the outcome and the filters after the call.
handle_open_invite_result(req, id_server) ==
    LET old_token == VerifyOldKeys(req.invite, old_bridgedb_keys, 1, 0)
        invite_id == req.invite.invite_id
        bucket_id == req.invite.bucket_id
        checksOk == /\ \E k \in BridgedbKeys : BridgeDb_verify(req.invite, k)
                    /\ bucket_id \in bridge_table_buckets
        out(res, why, oldf, curf, resp) ==
            [o |-> Outcome(res, why, req.piUserBlinding, checksOk, resp),
             old_openinv_filter |-> oldf, bridgedb_pub_filter |-> curf]
        oldf == IF old_token # 0
                THEN [old_openinv_filter EXCEPT ![old_token] = Insert(@, invite_id)]
                ELSE old_openinv_filter
        curf == IF old_token # 0 THEN bridgedb_pub_filter
                ELSE Insert(bridgedb_pub_filter, invite_id)
        bucket == to_scalar(bucket_id, bridge_table_keys[bucket_id])
    IN  IF old_token # 0 /\ old_token \notin DOMAIN old_openinv_filter
        THEN out("panic", "unwrap", old_openinv_filter, bridgedb_pub_filter, NoResponse)
        ELSE IF old_token # 0 /\ Seen(old_openinv_filter[old_token], invite_id)
        THEN out("VerificationFailure", "filter", old_openinv_filter,
                 bridgedb_pub_filter, NoResponse)
        ELSE IF old_token = 0 /\ ~BridgeDb_verify(req.invite, bridgedb_pub)
        THEN out("VerificationFailure", "signature", old_openinv_filter,
                 bridgedb_pub_filter, NoResponse)
        ELSE IF old_token = 0 /\ Seen(bridgedb_pub_filter, invite_id)
        THEN out("VerificationFailure", "filter", old_openinv_filter,
                 bridgedb_pub_filter, NoResponse)
        ELSE IF ~contains_key(bridge_table_buckets, bucket_id)
        THEN out("VerificationFailure", "bucket", oldf, curf, NoResponse)
        ELSE IF ~req.piUserBlinding
        THEN out("VerificationFailure", "proof", oldf, curf, NoResponse)
        ELSE IF bucket_id \notin DOMAIN bridge_table_keys
        THEN out("panic", "unwrap", oldf, curf, NoResponse)
        ELSE out("Response", "", oldf, curf,
                 [op |-> "open_invite",
                  mac |-> Lox(lox_key, req.id_client + id_server, bucket, 0, today, 0, 0),
                  id_server |-> id_server, bucket |-> bucket, level_since |-> today])

handle_open_invite(req) ==
    \E id_server \in ServerShares :
        LET r == handle_open_invite_result(req, id_server)
        IN  /\ old_openinv_filter' = r.old_openinv_filter
            /\ bridgedb_pub_filter' = r.bridgedb_pub_filter
            /\ last' = Call("handle_open_invite", req, r.o,
                            r.old_openinv_filter # old_openinv_filter
                            \/ r.bridgedb_pub_filter # bridgedb_pub_filter)
            /\ UNCHANGED <<today, id_filter, old_lox_filter, inv_id_filter,
                           old_invitation_filter, keys,
                           blockage_migration_table, advances>>

\* A client that expects a credential of trust level 1.
open_invite_handle_response_level_1(state, resp, lox_pub) ==
    LET id == state.id_client + resp.id_server
        cred == Lox(lox_pub, id, resp.bucket, 1, resp.level_since, 0, 0)
    IN  IF resp.mac = cred THEN Ok(cred) ELSE Err("VerificationFailure")

\* open_invite::handle_response(state, resp, lox_pub): the blind-issuing
\* proof verifies when the issuer MACed, under lox_pub, the attributes the
\* client reconstructs.
open_invite_handle_response(state, resp, lox_pub) ==
    LET id == state.id_client + resp.id_server
        cred == Lox(lox_pub, id, resp.bucket, 0, resp.level_since, 0, 0)
    IN  IF is_identity(resp, "P")
        THEN Err("VerificationFailure")
        ELSE IF resp.mac = cred THEN Ok(cred) ELSE Err("VerificationFailure")

\* -------------------------------------------------------------- migration
\* The Request and State migration::request builds once its checks have
\* passed (a client that skips the checks sends the same Request).
migration_show(lox_cred, migration_cred, id_client) ==
    [err |-> "none",
     req |-> [op |-> "migration", cred |-> lox_cred, mig |-> migration_cred,
              id |-> lox_cred.id, trust_level |-> lox_cred.trust_level,
              id_client |-> id_client, piUser |-> TRUE],
     state |-> [id_client |-> id_client, to_bucket |-> migration_cred.to_bucket]]

\* migration::request without the check of the trust level.
migration_request_any_level(lox_cred, migration_cred, id_client) ==
    IF lox_cred.id # migration_cred.lox_id \/ lox_cred.bucket # migration_cred.from_bucket
    THEN [err |-> "CredentialMismatch"]
    ELSE migration_show(lox_cred, migration_cred, id_client)

\* migration::request(lox_cred, migration_cred)
migration_request(lox_cred, migration_cred, id_client) ==
    IF lox_cred.id # migration_cred.lox_id \/ lox_cred.bucket # migration_cred.from_bucket
    THEN [err |-> "CredentialMismatch"]
    ELSE IF lox_cred.trust_level # 0
    THEN [err |-> "InvalidField(trust_level)"]
    ELSE migration_show(lox_cred, migration_cred, id_client)

\* The requests with the proof or the revealed id replaced.
Tampered(reqs) ==
    {[r EXCEPT !.piUser = FALSE] : r \in reqs}
        \cup {[r EXCEPT !.id = c.id] : r \in reqs, c \in {d \in UserLox : d.key = lox_key}}

\* A Lox credential and a Migration credential of the same users.
LoxMigrationPairs ==
    {p \in UserLox \X UserMigrations :
        \E d \in UserLox : d.key = p[1].key /\ p[2] = MigrationOf(d)}

\* The requests handle_migration may receive: those migration::request
\* builds, the same with the proof or a revealed value replaced, and those
\* of clients that skip the checks of migration::request.
MigrationRequests ==
    LET sent == {migration_show(p[1], p[2], i).req :
                    p \in LoxMigrationPairs, i \in ClientShares}
        built == {r \in sent : migration_request(r.cred, r.mig, r.id_client).err = "none"}
    IN  sent \cup Tampered(built) \cup {[r EXCEPT !.trust_level = 0] : r \in sent}

\* A proof whose Migration MAC equation holds for either migration type.
migration_verify_any_type(req) ==
    /\ req.piUser
    /\ req.cred.key = lox_key
    /\ req.cred.id = req.id /\ req.cred.trust_level = req.trust_level
    /\ req.cred.invites_remaining = 0 /\ req.cred.blockages = 0
    /\ req.mig.lox_id = req.id
    /\ req.mig.from_bucket = req.cred.bucket

\* requestproof::verify_compact in handle_migration: V_lox and V_mig are
\* the MAC equations of the two credentials on the revealed and committed
\* attributes; the attributes left out of V count as zero.
migration_verify(req) ==
    /\ req.piUser
    /\ req.cred.key = lox_key
    /\ req.cred.id = req.id /\ req.cred.trust_level = req.trust_level
    /\ req.cred.invites_remaining = 0 /\ req.cred.blockages = 0
    /\ req.mig.lox_id = req.id
    /\ req.mig.migration_type = 0
    /\ req.mig.from_bucket = req.cred.bucket

\* handle_migration without the write to id_filter (check() in place of
\* filter()).
handle_migration_result_check_only(req, id_server) ==
    LET out(res, why, f, resp) ==
            [o |-> Outcome(res, why, migration_verify(req), req.trust_level = 0, resp),
             id_filter |-> f]
    IN  IF req.trust_level # 0
        THEN out("VerificationFailure", "trust_level", id_filter, NoResponse)
        ELSE IF ~migration_verify(req)
        THEN out("VerificationFailure", "proof", id_filter, NoResponse)
        ELSE IF Seen(id_filter, req.id)
        THEN out("VerificationFailure", "filter", id_filter, NoResponse)
        ELSE out("Response", "", id_filter,
                 [op |-> "migration",
                  mac |-> Lox(lox_key, req.id_client + id_server, req.mig.to_bucket,
                              1, today, 0, 0),
                  id_server |-> id_server, level_since |-> today])

\* BridgeAuth::handle_migration: the outcome and id_filter after the call.
handle_migration_result(req, id_server) ==
    LET out(res, why, f, resp) ==
            [o |-> Outcome(res, why, migration_verify(req), req.trust_level = 0, resp),
             id_filter |-> f]
    IN  IF is_identity(req, "P_lox") \/ is_identity(req, "P_mig")
        THEN out("VerificationFailure", "identity", id_filter, NoResponse)
        ELSE IF req.trust_level # 0
        THEN out("VerificationFailure", "trust_level", id_filter, NoResponse)
        ELSE IF ~migration_verify(req)
        THEN out("VerificationFailure", "proof", id_filter, NoResponse)
        ELSE IF Seen(id_filter, req.id)
        THEN out("VerificationFailure", "filter", id_filter, NoResponse)
        ELSE out("Response", "", Insert(id_filter, req.id),
                 [op |-> "migration",
                  mac |-> Lox(lox_key, req.id_client + id_server, req.mig.to_bucket,
                              1, today, 0, 0),
                  id_server |-> id_server, level_since |-> today])

\* A handler that does not keep the id it has seen.
LoxHandler_forgetful(name, req, r) ==
    /\ id_filter' = id_filter
    /\ last' = Call(name, req, r.o, FALSE)
    /\ UNCHANGED <<today, old_lox_filter, inv_id_filter, old_invitation_filter,
                   bridgedb_pub_filter, old_openinv_filter, keys,
                   blockage_migration_table, advances>>

\* The handlers that show a Lox credential under the current key: the only
\* issuer state they change is id_filter.
LoxHandler(name, req, r) ==
    /\ id_filter' = r.id_filter
    /\ last' = Call(name, req, r.o, r.id_filter # id_filter)
    /\ UNCHANGED <<today, old_lox_filter, inv_id_filter, old_invitation_filter,
                   bridgedb_pub_filter, old_openinv_filter, keys,
                   blockage_migration_table, advances>>

handle_migration(req) ==
    \E id_server \in ServerShares :
        LoxHandler("handle_migration", req, handle_migration_result(req, id_server))

\* migration::handle_response(state, resp, lox_pub)
migration_handle_response(state, resp, lox_pub) ==
    LET id == state.id_client + resp.id_server
        cred == Lox(lox_pub, id, state.to_bucket, 1, resp.level_since, 0, 0)
    IN  IF is_identity(resp, "P")
        THEN Err("VerificationFailure")
        ELSE IF resp.mac = cred THEN Ok(cred) ELSE Err("VerificationFailure")

\* --------------------------------------------------------------- level_up
\* A level that is not capped at MAX_LEVEL.
NewLevel_uncapped(level) == level + 1

\* A level that moves two steps at a time.
NewLevel_by_two(level) == IF level < MAX_LEVEL THEN level + 2 ELSE level
\* A level that never moves.
NewLevel_same(level) == level

NewLevel(level) == IF level < MAX_LEVEL THEN level + 1 ELSE level

level_up_show(lox_cred, reach_cred, id_client) ==
    [err |-> "none",
     req |-> [op |-> "level_up", cred |-> lox_cred, reach |-> reach_cred,
              id |-> lox_cred.id, level |-> lox_cred.trust_level,
              id_client |-> id_client, piUser |-> TRUE],
     state |-> [id_client |-> id_client, bucket |-> lox_cred.bucket,
                level |-> NewLevel(lox_cred.trust_level),
                invremain |-> IF InRange(LEVEL_INVITATIONS, lox_cred.trust_level)
                              THEN Index(LEVEL_INVITATIONS, lox_cred.trust_level)
                              ELSE 0,
                blockages |-> lox_cred.blockages]]

\* A request function that builds the Request without any local check.
level_up_request_unchecked(lox_cred, reach_cred, id_client, now) ==
    level_up_show(lox_cred, reach_cred, id_client)

\* level_up::request(lox_cred, reach_cred, today)
level_up_request(lox_cred, reach_cred, id_client, now) ==
    LET trust_level == lox_cred.trust_level
        level_since == lox_cred.level_since
    IN  IF trust_level < 1 \/ trust_level > MAX_LEVEL
        THEN [err |-> "InvalidField(trust_level)"]
        ELSE IF level_since + Index(LEVEL_INTERVAL, trust_level) > now
        THEN [err |-> "TimeThresholdNotMet",
              days |-> level_since + Index(LEVEL_INTERVAL, trust_level) - now]
        ELSE IF now - (level_since + Index(LEVEL_INTERVAL, trust_level)) > 511
        THEN [err |-> "CredentialExpired"]
        ELSE IF lox_cred.blockages > Index(MAX_BLOCKAGES, trust_level)
        THEN [err |-> "ExceededBlockagesThreshold"]
        ELSE IF lox_cred.bucket # reach_cred.bucket
        THEN [err |-> "CredentialMismatch"]
        ELSE IF reach_cred.date # now
        THEN [err |-> "InvalidField(date)"]
        ELSE level_up_show(lox_cred, reach_cred, id_client)

LoxReachPairs == UserLox \X UserReach

LevelUpRequests ==
    LET sent == {level_up_show(p[1], p[2], i).req : p \in LoxReachPairs, i \in ClientShares}
        built == {r \in sent :
                    level_up_request(r.cred, r.reach, r.id_client, today).err = "none"}
    IN  sent \cup Tampered(built)

\* A proof whose reachability MAC equation does not use the issuer's today.
level_up_verify_any_day(req, level) ==
    /\ req.piUser
    /\ req.cred.key = lox_key
    /\ req.cred.id = req.id /\ req.cred.trust_level = req.level
    /\ req.reach.bucket = req.cred.bucket
    /\ today - Index(LEVEL_INTERVAL, level) - req.cred.level_since \in 0..511
    /\ Index(MAX_BLOCKAGES, level) - req.cred.blockages \in 0..7

\* A proof without the two range statements.
level_up_verify_no_range(req, level) ==
    /\ req.piUser
    /\ req.cred.key = lox_key
    /\ req.cred.id = req.id /\ req.cred.trust_level = req.level
    /\ req.reach.date = today /\ req.reach.bucket = req.cred.bucket

\* requestproof::verify_compact in handle_level_up: the MAC equations of the
\* Lox credential (on the revealed id and level) and of the reachability
\* credential (on today and the Lox bucket), and the two range statements:
\* today - LEVEL_INTERVAL[level] - level_since fits in 9 bits and
\* MAX_BLOCKAGES[level] - blockages fits in 3 bits.
level_up_verify(req, level) ==
    /\ req.piUser
    /\ req.cred.key = lox_key
    /\ req.cred.id = req.id /\ req.cred.trust_level = req.level
    /\ req.reach.date = today /\ req.reach.bucket = req.cred.bucket
    /\ today - Index(LEVEL_INTERVAL, level) - req.cred.level_since \in 0..511
    /\ Index(MAX_BLOCKAGES, level) - req.cred.blockages \in 0..7

\* BridgeAuth::handle_level_up: the outcome and id_filter after the call.
handle_level_up_result(req, id_server) ==
    LET levelOk == req.level >= 0 /\ req.level <= MAX_LEVEL
        level == req.level
        proofOk == levelOk /\ level_up_verify(req, level)
        out(res, why, f, resp) ==
            [o |-> Outcome(res, why, proofOk, levelOk, resp), id_filter |-> f]
    IN  IF is_identity(req, "P") \/ is_identity(req, "P_reach")
        THEN out("VerificationFailure", "identity", id_filter, NoResponse)
        ELSE IF ~levelOk THEN out("VerificationFailure", "level", id_filter, NoResponse)
        ELSE IF ~proofOk THEN out("VerificationFailure", "proof", id_filter, NoResponse)
        ELSE IF Seen(id_filter, req.id)
        THEN out("VerificationFailure", "filter", id_filter, NoResponse)
        ELSE IF ~InRange(LEVEL_INVITATIONS, level)
        THEN out("panic", "index", Insert(id_filter, req.id), NoResponse)
        ELSE out("Response", "", Insert(id_filter, req.id),
                 [op |-> "level_up",
                  mac |-> Lox(lox_key, req.id_client + id_server, req.cred.bucket,
                              NewLevel(level), today,
                              Index(LEVEL_INVITATIONS, level), req.cred.blockages),
                  id_server |-> id_server, level_since |-> today])

handle_level_up(req) ==
    \E id_server \in ServerShares :
        LoxHandler("handle_level_up", req, handle_level_up_result(req, id_server))

\* level_up::handle_response(state, resp, lox_pub)
level_up_handle_response(state, resp, lox_pub) ==
    LET id == state.id_client + resp.id_server
        cred == Lox(lox_pub, id, state.bucket, state.level, resp.level_since,
                    state.invremain, state.blockages)
    IN  IF is_identity(resp, "P")
        THEN Err("VerificationFailure")
        ELSE IF resp.mac = cred THEN Ok(cred) ELSE Err("VerificationFailure")

\* ----------------------------------------------------------- issue_invite
issue_invite_show(lox_cred, reach_cred, id_client) ==
    [err |-> "none",
     req |-> [op |-> "issue_invite", cred |-> lox_cred, reach |-> reach_cred,
              id |-> lox_cred.id, id_client |-> id_client,
              inv_id_client |-> id_client + 1, piUser |-> TRUE],
     state |-> [id_client |-> id_client, inv_id_client |-> id_client + 1,
                bucket |-> lox_cred.bucket, level |-> lox_cred.trust_level,
                since |-> lox_cred.level_since,
                invremain |-> lox_cred.invites_remaining - 1,
                blockages |-> lox_cred.blockages]]

\* issue_invite::request without the comparison of the two buckets.
issue_invite_request_unlinked(lox_cred, reach_cred, id_client, now) ==
    IF lox_cred.invites_remaining = 0
    THEN [err |-> "NoInvitationsRemaining"]
    ELSE IF reach_cred.date # now
    THEN [err |-> "InvalidField(date)"]
    ELSE issue_invite_show(lox_cred, reach_cred, id_client)

\* issue_invite::request(lox_cred, reach_cred, today)
issue_invite_request(lox_cred, reach_cred, id_client, now) ==
    IF lox_cred.invites_remaining = 0
    THEN [err |-> "NoInvitationsRemaining"]
    ELSE IF lox_cred.bucket # reach_cred.bucket
    THEN [err |-> "CredentialMismatch"]
    ELSE IF reach_cred.date # now
    THEN [err |-> "InvalidField(date)"]
    ELSE issue_invite_show(lox_cred, reach_cred, id_client)

IssueInviteRequests ==
    LET sent == {issue_invite_show(p[1], p[2], i).req :
                    p \in LoxReachPairs, i \in ClientShares}
        built == {r \in sent :
                    issue_invite_request(r.cred, r.reach, r.id_client, today).err = "none"}
    IN  sent \cup Tampered(built)

\* A proof without the statement that invites_remaining is not zero.
issue_invite_verify_any(req) ==
    /\ req.piUser
    /\ req.cred.key = lox_key
    /\ req.cred.id = req.id
    /\ req.reach.date = today /\ req.reach.bucket = req.cred.bucket

\* requestproof::verify_compact in handle_issue_invite: the MAC equations of
\* the two credentials, and invites_remaining (whose inverse the prover
\* must know) is not zero.
issue_invite_verify(req) ==
    /\ req.piUser
    /\ req.cred.key = lox_key
    /\ req.cred.id = req.id
    /\ req.reach.date = today /\ req.reach.bucket = req.cred.bucket
    /\ req.cred.invites_remaining # 0

\* A handler that issues the Invitation without taking one off
\* invites_remaining.
handle_issue_invite_result_no_decrement(req, id_server, inv_id_server) ==
    LET proofOk == issue_invite_verify(req)
        out(res, why, f, resp) ==
            [o |-> Outcome(res, why, proofOk, TRUE, resp), id_filter |-> f]
    IN  IF ~proofOk THEN out("VerificationFailure", "proof", id_filter, NoResponse)
        ELSE IF Seen(id_filter, req.id)
        THEN out("VerificationFailure", "filter", id_filter, NoResponse)
        ELSE out("Response", "", Insert(id_filter, req.id),
                 [op |-> "issue_invite",
                  mac |-> Lox(lox_key, req.id_client + id_server, req.cred.bucket,
                              req.cred.trust_level, req.cred.level_since,
                              req.cred.invites_remaining, req.cred.blockages),
                  mac_inv |-> Invitation(invitation_key, req.inv_id_client + inv_id_server,
                                         today, req.cred.bucket, req.cred.blockages),
                  id_server |-> id_server, inv_id_server |-> inv_id_server,
                  date_inv |-> today])

\* BridgeAuth::handle_issue_invite: the outcome and id_filter after the call.
handle_issue_invite_result(req, id_server, inv_id_server) ==
    LET proofOk == issue_invite_verify(req)
        out(res, why, f, resp) ==
            [o |-> Outcome(res, why, proofOk, TRUE, resp), id_filter |-> f]
    IN  IF is_identity(req, "P") \/ is_identity(req, "P_reach")
        THEN out("VerificationFailure", "identity", id_filter, NoResponse)
        ELSE IF ~proofOk THEN out("VerificationFailure", "proof", id_filter, NoResponse)
        ELSE IF Seen(id_filter, req.id)
        THEN out("VerificationFailure", "filter", id_filter, NoResponse)
        ELSE out("Response", "", Insert(id_filter, req.id),
                 [op |-> "issue_invite",
                  mac |-> Lox(lox_key, req.id_client + id_server, req.cred.bucket,
                              req.cred.trust_level, req.cred.level_since,
                              req.cred.invites_remaining - 1, req.cred.blockages),
                  mac_inv |-> Invitation(invitation_key, req.inv_id_client + inv_id_server,
                                         today, req.cred.bucket, req.cred.blockages),
                  id_server |-> id_server, inv_id_server |-> inv_id_server,
                  date_inv |-> today])

handle_issue_invite(req) ==
    \E id_server \in ServerShares, inv_id_server \in ServerShares :
        LoxHandler("handle_issue_invite", req,
                   handle_issue_invite_result(req, id_server, inv_id_server))

\* issue_invite::handle_response(state, resp, lox_pub, invitation_pub)
issue_invite_handle_response(state, resp, lox_pub, invitation_pub) ==
    LET id == state.id_client + resp.id_server
        inv_id == state.inv_id_client + resp.inv_id_server
        cred == Lox(lox_pub, id, state.bucket, state.level, state.since,
                    state.invremain, state.blockages)
        inv == Invitation(invitation_pub, inv_id, resp.date_inv, state.bucket,
                          state.blockages)
    IN  IF is_identity(resp, "P") \/ is_identity(resp, "P_inv")
        THEN Err("VerificationFailure")
        ELSE IF resp.mac = cred /\ resp.mac_inv = inv THEN Ok(<<cred, inv>>)
        ELSE Err("VerificationFailure")

\* ---------------------------------------------------------- redeem_invite
redeem_invite_show(inv_cred, id_client) ==
    [err |-> "none",
     req |-> [op |-> "redeem_invite", inv |-> inv_cred, inv_id |-> inv_cred.inv_id,
              id_client |-> id_client, piUser |-> TRUE],
     state |-> [id_client |-> id_client, bucket |-> inv_cred.bucket,
                blockages |-> inv_cred.blockages]]

\* A request function that builds the Request without any local check.
redeem_invite_request_unchecked(inv_cred, id_client, now) ==
    redeem_invite_show(inv_cred, id_client)

\* redeem_invite::request(inv_cred, today)
redeem_invite_request(inv_cred, id_client, now) ==
    IF inv_cred.date + INVITATION_EXPIRY < now
    THEN [err |-> "CredentialExpired"]
    ELSE IF inv_cred.date + INVITATION_EXPIRY - now > 15
    THEN [err |-> "InvalidField(date)"]
    ELSE redeem_invite_show(inv_cred, id_client)

\* The requests with the proof or the revealed inv_id replaced.
TamperedInv(reqs) ==
    {[r EXCEPT !.piUser = FALSE] : r \in reqs}
        \cup {[r EXCEPT !.inv_id = r.inv_id + 1] : r \in reqs}

RedeemInviteRequests ==
    LET sent == {redeem_invite_show(c, i).req : c \in UserInvitations, i \in ClientShares}
        built == {r \in sent : redeem_invite_request(r.inv, r.id_client, today).err = "none"}
    IN  sent \cup TamperedInv(built)

\* A proof without the range statement on the date.
redeem_invite_verify_no_range(req) ==
    /\ req.piUser
    /\ req.inv.key = invitation_key
    /\ req.inv.inv_id = req.inv_id

\* requestproof::verify_compact in handle_redeem_invite: the MAC equation of
\* the Invitation on the revealed inv_id, and the range statement:
\* date + INVITATION_EXPIRY - today fits in 4 bits.
redeem_invite_verify(req) ==
    /\ req.piUser
    /\ req.inv.key = invitation_key
    /\ req.inv.inv_id = req.inv_id
    /\ req.inv.date + INVITATION_EXPIRY - today \in 0..15

\* handle_redeem_invite without the inv_id_filter.
handle_redeem_invite_result_no_filter(req, id_server) ==
    LET proofOk == redeem_invite_verify(req)
        out(res, why, f, resp) ==
            [o |-> Outcome(res, why, proofOk, TRUE, resp), inv_id_filter |-> f]
    IN  IF ~proofOk THEN out("VerificationFailure", "proof", inv_id_filter, NoResponse)
        ELSE out("Response", "", inv_id_filter,
                 [op |-> "redeem_invite",
                  mac |-> Lox(lox_key, req.id_client + id_server, req.inv.bucket,
                              1, today, 0, req.inv.blockages),
                  id_server |-> id_server, level_since |-> today])

\* BridgeAuth::handle_redeem_invite: the outcome and inv_id_filter after the call.
handle_redeem_invite_result(req, id_server) ==
    LET proofOk == redeem_invite_verify(req)
        out(res, why, f, resp) ==
            [o |-> Outcome(res, why, proofOk, TRUE, resp), inv_id_filter |-> f]
    IN  IF is_identity(req, "P")
        THEN out("VerificationFailure", "identity", inv_id_filter, NoResponse)
        ELSE IF ~proofOk THEN out("VerificationFailure", "proof", inv_id_filter, NoResponse)
        ELSE IF Seen(inv_id_filter, req.inv_id)
        THEN out("VerificationFailure", "filter", inv_id_filter, NoResponse)
        ELSE out("Response", "", Insert(inv_id_filter, req.inv_id),
                 [op |-> "redeem_invite",
                  mac |-> Lox(lox_key, req.id_client + id_server, req.inv.bucket,
                              1, today, 0, req.inv.blockages),
                  id_server |-> id_server, level_since |-> today])

handle_redeem_invite(req) ==
    \E id_server \in ServerShares :
        LET r == handle_redeem_invite_result(req, id_server)
        IN  /\ inv_id_filter' = r.inv_id_filter
            /\ last' = Call("handle_redeem_invite", req, r.o,
                            r.inv_id_filter # inv_id_filter)
            /\ UNCHANGED <<today, id_filter, old_lox_filter, old_invitation_filter,
                           bridgedb_pub_filter, old_openinv_filter, keys,
                           blockage_migration_table, advances>>

\* redeem_invite::handle_response(state, resp, lox_pub)
redeem_invite_handle_response(state, resp, lox_pub) ==
    LET id == state.id_client + resp.id_server
        cred == Lox(lox_pub, id, state.bucket, 1, resp.level_since, 0, state.blockages)
    IN  IF is_identity(resp, "P")
        THEN Err("VerificationFailure")
        ELSE IF resp.mac = cred THEN Ok(cred) ELSE Err("VerificationFailure")

\* -------------------------------------------------------- migration_table
\* The Migration Key credential MAC Qk on (id, from_bucket).
MigrationKeyMac(id, from_bucket) == <<id, from_bucket>>

\* migration_table::encrypt_cred: the label and the AES key are the halves
\* of the hash of (id, from_bucket, Qk); the plaintext is to_bucket and the
\* MAC of the Migration credential.
encrypt_cred(id, from_bucket, to_bucket, migration_type) ==
    [hash |-> <<id, from_bucket, MigrationKeyMac(id, from_bucket)>>,
     to_bucket |-> to_bucket,
     mac |-> Migration(id, from_bucket, to_bucket, migration_type)]

\* migration_table::encrypt_cred_ids: None (the empty set) when a bucket
\* has no key in the bridge table.
encrypt_cred_ids(id, from_id, to_id, migration_type) ==
    IF from_id \in DOMAIN bridge_table_keys /\ to_id \in DOMAIN bridge_table_keys
    THEN {encrypt_cred(id, to_scalar(from_id, bridge_table_keys[from_id]),
                       to_scalar(to_id, bridge_table_keys[to_id]), migration_type)}
    ELSE {}

\* MigrationTable::encrypt_table
encrypt_table(table, id, migration_type) ==
    UNION {encrypt_cred_ids(id, row[1], row[2], migration_type) : row \in table}

\* The sizes in bytes of an entry of the encrypted table: the label is the
\* first half of a SHA-256 hash, the value is the nonce, the serialized
\* (to_bucket, P, Q) and the AES-GCM tag.
MIGRATION_BYTES == 96
ENC_MIGRATION_BYTES == MIGRATION_BYTES + 12 + 16
EntryBytes(entry) == [label |-> 16, value |-> ENC_MIGRATION_BYTES]

\* A decryption that finds the entry without the MAC Qk.
decrypt_cred_any_key(Qk, lox_id, from_bucket, migration_type, enc_migration_table) ==
    {Migration(lox_id, from_bucket, row.to_bucket, migration_type) :
        row \in {r \in enc_migration_table :
                    r.hash[1] = lox_id /\ r.hash[2] = from_bucket}}

\* migration_table::decrypt_cred: the Migration credential, or None (the
\* empty set).
decrypt_cred(Qk, lox_id, from_bucket, migration_type, enc_migration_table) ==
    {Migration(lox_id, from_bucket, row.to_bucket, migration_type) :
        row \in {r \in enc_migration_table : r.hash = <<lox_id, from_bucket, Qk>>}}

\* --------------------------------------------------------- check_blockage
check_blockage_show(lox_cred) ==
    [err |-> "none",
     req |-> [op |-> "check_blockage", cred |-> lox_cred, id |-> lox_cred.id,
              level |-> lox_cred.trust_level, piUser |-> TRUE],
     state |-> [id |-> lox_cred.id, bucket |-> lox_cred.bucket]]

\* check_blockage::request(lox_cred)
check_blockage_request(lox_cred) ==
    IF lox_cred.trust_level < MIN_TRUST_LEVEL
    THEN [err |-> "InvalidField(trust_level)"]
    ELSE check_blockage_show(lox_cred)

CheckBlockageRequests ==
    LET sent == {check_blockage_show(c).req : c \in UserLox}
        built == {r \in sent : check_blockage_request(r.cred).err = "none"}
    IN  sent \cup Tampered(built)

\* requestproof::verify_compact in handle_check_blockage
check_blockage_verify(req) ==
    /\ req.piUser
    /\ req.cred.key = lox_key
    /\ req.cred.id = req.id /\ req.cred.trust_level = req.level

\* A handler that does not look at the revealed trust level.
handle_check_blockage_result_any_level(req) ==
    LET proofOk == check_blockage_verify(req)
        out(res, why, f, resp) ==
            [o |-> Outcome(res, why, proofOk, TRUE, resp), id_filter |-> f]
    IN  IF ~proofOk THEN out("VerificationFailure", "proof", id_filter, NoResponse)
        ELSE IF Seen(id_filter, req.id)
        THEN out("VerificationFailure", "filter", id_filter, NoResponse)
        ELSE out("Response", "", id_filter,
                 [op |-> "check_blockage",
                  Qk |-> MigrationKeyMac(req.id, req.cred.bucket),
                  enc_migration_table |->
                      encrypt_table(blockage_migration_table, req.id,
                                    MigrationType.Blockage)])

\* A handler that returns the entries of the requester's bucket only.
handle_check_blockage_result_own_row(req) ==
    LET levelOk == req.level >= MIN_TRUST_LEVEL
        proofOk == check_blockage_verify(req)
        out(res, why, f, resp) ==
            [o |-> Outcome(res, why, proofOk, levelOk, resp), id_filter |-> f]
    IN  IF ~levelOk THEN out("VerificationFailure", "level", id_filter, NoResponse)
        ELSE IF ~proofOk THEN out("VerificationFailure", "proof", id_filter, NoResponse)
        ELSE IF Seen(id_filter, req.id)
        THEN out("VerificationFailure", "filter", id_filter, NoResponse)
        ELSE out("Response", "", id_filter,
                 [op |-> "check_blockage",
                  Qk |-> MigrationKeyMac(req.id, req.cred.bucket),
                  enc_migration_table |->
                      encrypt_table({row \in blockage_migration_table :
                                        row[1] = req.cred.bucket[1]},
                                    req.id, MigrationType.Blockage)])

\* handle_check_blockage with filter() in place of check().
handle_check_blockage_result_filter(req) ==
    LET levelOk == req.level >= MIN_TRUST_LEVEL
        proofOk == check_blockage_verify(req)
        out(res, why, f, resp) ==
            [o |-> Outcome(res, why, proofOk, levelOk, resp), id_filter |-> f]
    IN  IF ~levelOk THEN out("VerificationFailure", "level", id_filter, NoResponse)
        ELSE IF ~proofOk THEN out("VerificationFailure", "proof", id_filter, NoResponse)
        ELSE IF Seen(id_filter, req.id)
        THEN out("VerificationFailure", "filter", id_filter, NoResponse)
        ELSE out("Response", "", Insert(id_filter, req.id),
                 [op |-> "check_blockage",
                  Qk |-> MigrationKeyMac(req.id, req.cred.bucket),
                  enc_migration_table |->
                      encrypt_table(blockage_migration_table, req.id,
                                    MigrationType.Blockage)])

\* BridgeAuth::handle_check_blockage: the outcome and id_filter after the call
\* (check() does not insert).
handle_check_blockage_result(req) ==
    LET levelOk == req.level >= MIN_TRUST_LEVEL
        proofOk == check_blockage_verify(req)
        out(res, why, f, resp) ==
            [o |-> Outcome(res, why, proofOk, levelOk, resp), id_filter |-> f]
    IN  IF is_identity(req, "P")
        THEN out("VerificationFailure", "identity", id_filter, NoResponse)
        ELSE IF ~levelOk THEN out("VerificationFailure", "level", id_filter, NoResponse)
        ELSE IF ~proofOk THEN out("VerificationFailure", "proof", id_filter, NoResponse)
        ELSE IF Seen(id_filter, req.id)
        THEN out("VerificationFailure", "filter", id_filter, NoResponse)
        ELSE out("Response", "", id_filter,
                 [op |-> "check_blockage",
                  Qk |-> MigrationKeyMac(req.id, req.cred.bucket),
                  enc_migration_table |->
                      encrypt_table(blockage_migration_table, req.id,
                                    MigrationType.Blockage)])

handle_check_blockage(req) ==
    LoxHandler("handle_check_blockage", req, handle_check_blockage_result(req))

\* check_blockage::handle_response(state, resp)
check_blockage_handle_response(state, resp) ==
    LET m == decrypt_cred(resp.Qk, state.id, state.bucket, MigrationType.Blockage,
                          resp.enc_migration_table)
    IN  IF is_identity(resp, "Pk")
        THEN Err("VerificationFailure")
        ELSE IF m = {} THEN Err("VerificationFailure")
        ELSE Ok(CHOOSE c \in m : TRUE)

\* ----------------------------------------------------- blockage_migration
blockage_migration_show(lox_cred, migration_cred, id_client) ==
    [err |-> "none",
     req |-> [op |-> "blockage_migration", cred |-> lox_cred, mig |-> migration_cred,
              id |-> lox_cred.id, trust_level |-> lox_cred.trust_level,
              id_client |-> id_client, piUser |-> TRUE],
     state |-> [id_client |-> id_client, to_bucket |-> migration_cred.to_bucket,
                trust_level |-> lox_cred.trust_level - 2,
                blockages |-> lox_cred.blockages + 1]]

\* blockage_migration::request(lox_cred, migration_cred)
blockage_migration_request(lox_cred, migration_cred, id_client) ==
    IF lox_cred.id # migration_cred.lox_id \/ lox_cred.bucket # migration_cred.from_bucket
    THEN [err |-> "CredentialMismatch"]
    ELSE IF lox_cred.trust_level < MIN_TRUST_LEVEL
    THEN [err |-> "InvalidField(trust_level)"]
    ELSE blockage_migration_show(lox_cred, migration_cred, id_client)

BlockageMigrationRequests ==
    LET sent == {blockage_migration_show(p[1], p[2], i).req :
                    p \in LoxMigrationPairs, i \in ClientShares}
        built == {r \in sent :
                    blockage_migration_request(r.cred, r.mig, r.id_client).err = "none"}
    IN  sent \cup Tampered(built)

\* requestproof::verify_compact in handle_blockage_migration
blockage_migration_verify(req) ==
    /\ req.piUser
    /\ req.cred.key = lox_key
    /\ req.cred.id = req.id /\ req.cred.trust_level = req.trust_level
    /\ req.mig.lox_id = req.id
    /\ req.mig.migration_type = MigrationType.Blockage
    /\ req.mig.from_bucket = req.cred.bucket

\* A handler that demotes the user and grants the invitations of the level
\* the credential had.
handle_blockage_migration_result_invitations(req, id_server) ==
    LET level == req.trust_level
        levelOk == level >= MIN_TRUST_LEVEL
        proofOk == blockage_migration_verify(req)
        out(res, why, f, resp) ==
            [o |-> Outcome(res, why, proofOk, levelOk, resp), id_filter |-> f]
    IN  IF ~levelOk THEN out("VerificationFailure", "level", id_filter, NoResponse)
        ELSE IF ~proofOk THEN out("VerificationFailure", "proof", id_filter, NoResponse)
        ELSE IF Seen(id_filter, req.id)
        THEN out("VerificationFailure", "filter", id_filter, NoResponse)
        ELSE out("Response", "", Insert(id_filter, req.id),
                 [op |-> "blockage_migration",
                  mac |-> Lox(lox_key, req.id_client + id_server, req.mig.to_bucket,
                              level - 2, today, Index(LEVEL_INVITATIONS, level),
                              req.cred.blockages + 1),
                  id_server |-> id_server, level_since |-> today])

\* BridgeAuth::handle_blockage_migration: the outcome and id_filter after the
\* call.
handle_blockage_migration_result(req, id_server) ==
    LET level == req.trust_level
        levelOk == level >= MIN_TRUST_LEVEL
        proofOk == blockage_migration_verify(req)
        out(res, why, f, resp) ==
            [o |-> Outcome(res, why, proofOk, levelOk, resp), id_filter |-> f]
    IN  IF is_identity(req, "P_lox") \/ is_identity(req, "P_mig")
        THEN out("VerificationFailure", "identity", id_filter, NoResponse)
        ELSE IF ~levelOk THEN out("VerificationFailure", "level", id_filter, NoResponse)
        ELSE IF ~proofOk THEN out("VerificationFailure", "proof", id_filter, NoResponse)
        ELSE IF Seen(id_filter, req.id)
        THEN out("VerificationFailure", "filter", id_filter, NoResponse)
        ELSE IF ~InRange(LEVEL_INVITATIONS, level - 3)
        THEN out("panic", "index", Insert(id_filter, req.id), NoResponse)
        ELSE out("Response", "", Insert(id_filter, req.id),
                 [op |-> "blockage_migration",
                  mac |-> Lox(lox_key, req.id_client + id_server, req.mig.to_bucket,
                              level - 2, today, Index(LEVEL_INVITATIONS, level - 3),
                              req.cred.blockages + 1),
                  id_server |-> id_server, level_since |-> today])

handle_blockage_migration(req) ==
    \E id_server \in ServerShares :
        LoxHandler("handle_blockage_migration", req,
                   handle_blockage_migration_result(req, id_server))

\* A client that takes the invitations of the new level itself.
blockage_migration_handle_response_own_level(state, resp, lox_pub) ==
    LET id == state.id_client + resp.id_server
        new_level == state.trust_level
        invremain == Index(LEVEL_INVITATIONS, new_level)
        cred == Lox(lox_pub, id, state.to_bucket, new_level, resp.level_since,
                    invremain, state.blockages)
    IN  IF new_level < 1 THEN Err("VerificationFailure")
        ELSE IF resp.mac = cred THEN Ok(cred)
        ELSE Err("VerificationFailure")

\* blockage_migration::handle_response(state, resp, lox_pub)
blockage_migration_handle_response(state, resp, lox_pub) ==
    LET id == state.id_client + resp.id_server
        new_level == state.trust_level
        invremain == Index(LEVEL_INVITATIONS, new_level - 1)
        cred == Lox(lox_pub, id, state.to_bucket, new_level, resp.level_since,
                    invremain, state.blockages)
    IN  IF is_identity(resp, "P")
        THEN Err("VerificationFailure")
        ELSE IF new_level < 1 THEN Err("VerificationFailure")
        ELSE IF ~InRange(LEVEL_INVITATIONS, new_level - 1) THEN Err("panic")
        ELSE IF resp.mac = cred THEN Ok(cred)
        ELSE Err("VerificationFailure")

\* ------------------------------------------------------------ update_cred
\* Vec::iter().position: the index of the first element equal to x (0: None).
Position(v, x) ==
    IF \E j \in DOMAIN v : v[j] = x
    THEN CHOOSE j \in DOMAIN v : v[j] = x /\ \A h \in 1..(j - 1) : v[h] # x
    ELSE 0

\* update_cred::request(lox_cred, lox_pub): lox_pub is the key the
\* credential was issued under.
update_cred_request(lox_cred, lox_pub, id_client) ==
    [err |-> "none",
     req |-> [op |-> "update_cred", cred |-> lox_cred, OldPubKey |-> lox_pub,
              id |-> lox_cred.id, id_client |-> id_client, piUser |-> TRUE],
     state |-> [id_client |-> id_client, bucket |-> lox_cred.bucket,
                level |-> lox_cred.trust_level, since |-> lox_cred.level_since,
                invremain |-> lox_cred.invites_remaining,
                blockages |-> lox_cred.blockages]]

UpdateCredRequests ==
    LET built == {update_cred_request(c, c.key, i).req : c \in UserLox, i \in ClientShares}
    IN  built \cup {[r EXCEPT !.piUser = FALSE] : r \in built}
              \cup {[r EXCEPT !.id = r.id + 2] : r \in built}
              \cup {[r EXCEPT !.OldPubKey = k] : r \in built, k \in LoxKeys}

\* requestproof::verify_compact in handle_update_cred, under the old key
update_cred_verify(req, old_key) ==
    /\ req.piUser
    /\ req.cred.key = old_key
    /\ req.cred.id = req.id

\* handle_update_cred without the filter of the retired key.
handle_update_cred_result_no_filter(req, id_server) ==
    LET index == Position(old_lox_keys, req.OldPubKey)
        found == old_lox_keys # <<>> /\ old_lox_filter # <<>> /\ index # 0
        proofOk == found /\ update_cred_verify(req, old_lox_keys[index])
        out(res, why, f, resp) ==
            [o |-> Outcome(res, why, proofOk, found, resp), old_lox_filter |-> f]
    IN  IF ~found THEN out("VerificationFailure", "OldPubKey", old_lox_filter, NoResponse)
        ELSE IF ~proofOk
        THEN out("VerificationFailure", "proof", old_lox_filter, NoResponse)
        ELSE out("Response", "", old_lox_filter,
                 [op |-> "update_cred",
                  mac |-> [req.cred EXCEPT !.key = lox_key,
                                           !.id = req.id_client + id_server],
                  id_server |-> id_server])

\* BridgeAuth::handle_update_cred: the outcome and old_filters.lox_filter
\* after the call.
handle_update_cred_result(req, id_server) ==
    LET index == Position(old_lox_keys, req.OldPubKey)
        found == old_lox_keys # <<>> /\ old_lox_filter # <<>> /\ index # 0
        proofOk == found /\ update_cred_verify(req, old_lox_keys[index])
        out(res, why, f, resp) ==
            [o |-> Outcome(res, why, proofOk, found, resp), old_lox_filter |-> f]
    IN  IF is_identity(req, "P")
        THEN out("VerificationFailure", "identity", old_lox_filter, NoResponse)
        ELSE IF ~found THEN out("VerificationFailure", "OldPubKey", old_lox_filter, NoResponse)
        ELSE IF ~proofOk
        THEN out("VerificationFailure", "proof", old_lox_filter, NoResponse)
        ELSE IF index \notin DOMAIN old_lox_filter
        THEN out("panic", "unwrap", old_lox_filter, NoResponse)
        ELSE IF Seen(old_lox_filter[index], req.id)
        THEN out("VerificationFailure", "filter", old_lox_filter, NoResponse)
        ELSE out("Response", "",
                 [old_lox_filter EXCEPT ![index] = Insert(@, req.id)],
                 [op |-> "update_cred",
                  mac |-> [req.cred EXCEPT !.key = lox_key,
                                           !.id = req.id_client + id_server],
                  id_server |-> id_server])

handle_update_cred(req) ==
    \E id_server \in ServerShares :
        LET r == handle_update_cred_result(req, id_server)
        IN  /\ old_lox_filter' = r.old_lox_filter
            /\ last' = Call("handle_update_cred", req, r.o,
                            r.old_lox_filter # old_lox_filter)
            /\ UNCHANGED <<today, id_filter, inv_id_filter, old_invitation_filter,
                           bridgedb_pub_filter, old_openinv_filter, keys,
                           blockage_migration_table, advances>>

\* update_cred::handle_response(state, resp, lox_pub)
update_cred_handle_response(state, resp, lox_pub) ==
    LET id == state.id_client + resp.id_server
        cred == Lox(lox_pub, id, state.bucket, state.level, state.since,
                    state.invremain, state.blockages)
    IN  IF is_identity(resp, "P")
        THEN Err("VerificationFailure")
        ELSE IF resp.mac = cred THEN Ok(cred) ELSE Err("VerificationFailure")

\* ---------------------------------------------------------- update_invite
\* update_invite::request(inv_cred, invitation_pub)
update_invite_request(inv_cred, invitation_pub, id_client) ==
    [err |-> "none",
     req |-> [op |-> "update_invite", inv |-> inv_cred, OldPubKey |-> invitation_pub,
              inv_id |-> inv_cred.inv_id, id_client |-> id_client, piUser |-> TRUE],
     state |-> [inv_id_client |-> id_client, date |-> inv_cred.date,
                bucket |-> inv_cred.bucket, blockages |-> inv_cred.blockages]]

UpdateInviteRequests ==
    LET built == {update_invite_request(c, c.key, i).req :
                    c \in UserInvitations, i \in ClientShares}
    IN  built \cup TamperedInv(built)
              \cup {[r EXCEPT !.OldPubKey = k] : r \in built, k \in InvitationKeys}

\* requestproof::verify_compact in handle_update_invite, under the old key
update_invite_verify(req, old_key) ==
    /\ req.piUser
    /\ req.inv.key = old_key
    /\ req.inv.inv_id = req.inv_id

\* A handler that consults the filter of the most recently retired key.
handle_update_invite_result_latest_filter(req, inv_id_server) ==
    LET index == Position(old_invitation_keys, req.OldPubKey)
        latest == Len(old_invitation_filter)
        found == old_invitation_keys # <<>> /\ old_invitation_filter # <<>> /\ index # 0
        proofOk == found /\ update_invite_verify(req, old_invitation_keys[index])
        out(res, why, f, resp) ==
            [o |-> Outcome(res, why, proofOk, found, resp), old_invitation_filter |-> f]
    IN  IF ~found
        THEN out("VerificationFailure", "OldPubKey", old_invitation_filter, NoResponse)
        ELSE IF ~proofOk
        THEN out("VerificationFailure", "proof", old_invitation_filter, NoResponse)
        ELSE IF Seen(old_invitation_filter[latest], req.inv_id)
        THEN out("VerificationFailure", "filter", old_invitation_filter, NoResponse)
        ELSE out("Response", "",
                 [old_invitation_filter EXCEPT ![latest] = Insert(@, req.inv_id)],
                 [op |-> "update_invite",
                  mac_inv |-> [req.inv EXCEPT !.key = invitation_key,
                                              !.inv_id = req.id_client + inv_id_server],
                  inv_id_server |-> inv_id_server])

\* A handler that dates the Invitation it issues with today.
handle_update_invite_result_redated(req, inv_id_server) ==
    LET index == Position(old_invitation_keys, req.OldPubKey)
        found == old_invitation_keys # <<>> /\ old_invitation_filter # <<>> /\ index # 0
        proofOk == found /\ update_invite_verify(req, old_invitation_keys[index])
        out(res, why, f, resp) ==
            [o |-> Outcome(res, why, proofOk, found, resp), old_invitation_filter |-> f]
    IN  IF ~found
        THEN out("VerificationFailure", "OldPubKey", old_invitation_filter, NoResponse)
        ELSE IF ~proofOk
        THEN out("VerificationFailure", "proof", old_invitation_filter, NoResponse)
        ELSE IF Seen(old_invitation_filter[index], req.inv_id)
        THEN out("VerificationFailure", "filter", old_invitation_filter, NoResponse)
        ELSE out("Response", "",
                 [old_invitation_filter EXCEPT ![index] = Insert(@, req.inv_id)],
                 [op |-> "update_invite",
                  mac_inv |-> [req.inv EXCEPT !.key = invitation_key, !.date = today,
                                              !.inv_id = req.id_client + inv_id_server],
                  inv_id_server |-> inv_id_server])

\* BridgeAuth::handle_update_invite: the outcome and
\* old_filters.invitation_filter after the call.
handle_update_invite_result(req, inv_id_server) ==
    LET index == Position(old_invitation_keys, req.OldPubKey)
        found == old_invitation_keys # <<>> /\ old_invitation_filter # <<>> /\ index # 0
        proofOk == found /\ update_invite_verify(req, old_invitation_keys[index])
        out(res, why, f, resp) ==
            [o |-> Outcome(res, why, proofOk, found, resp), old_invitation_filter |-> f]
    IN  IF is_identity(req, "P")
        THEN out("VerificationFailure", "identity", old_invitation_filter, NoResponse)
        ELSE IF ~found
        THEN out("VerificationFailure", "OldPubKey", old_invitation_filter, NoResponse)
        ELSE IF ~proofOk
        THEN out("VerificationFailure", "proof", old_invitation_filter, NoResponse)
        ELSE IF index \notin DOMAIN old_invitation_filter
        THEN out("panic", "unwrap", old_invitation_filter, NoResponse)
        ELSE IF Seen(old_invitation_filter[index], req.inv_id)
        THEN out("VerificationFailure", "filter", old_invitation_filter, NoResponse)
        ELSE out("Response", "",
                 [old_invitation_filter EXCEPT ![index] = Insert(@, req.inv_id)],
                 [op |-> "update_invite",
                  mac_inv |-> [req.inv EXCEPT !.key = invitation_key,
                                              !.inv_id = req.id_client + inv_id_server],
                  inv_id_server |-> inv_id_server])

handle_update_invite(req) ==
    \E inv_id_server \in ServerShares :
        LET r == handle_update_invite_result(req, inv_id_server)
        IN  /\ old_invitation_filter' = r.old_invitation_filter
            /\ last' = Call("handle_update_invite", req, r.o,
                            r.old_invitation_filter # old_invitation_filter)
            /\ UNCHANGED <<today, id_filter, old_lox_filter, inv_id_filter,
                           bridgedb_pub_filter, old_openinv_filter, keys,
                           blockage_migration_table, advances>>

\* update_invite::handle_response(state, resp, invitation_pub)
update_invite_handle_response(state, resp, invitation_pub) ==
    LET inv_id == state.inv_id_client + resp.inv_id_server
        inv == Invitation(invitation_pub, inv_id, state.date, state.bucket,
                          state.blockages)
    IN  IF is_identity(resp, "P")
        THEN Err("VerificationFailure")
        ELSE IF resp.mac_inv = inv THEN Ok(inv) ELSE Err("VerificationFailure")

\* ------------------------------------------------------------- the issuer
Rotations == Len(old_lox_keys) + Len(old_invitation_keys) + Len(old_bridgedb_keys)

\* BridgeAuth::rotate_lox_keys
rotate_lox_keys ==
    /\ old_lox_keys' = Append(old_lox_keys, lox_key)
    /\ old_lox_filter' = Append(old_lox_filter, id_filter)
    /\ lox_key' = lox_key + 1
    /\ id_filter' = {}
    /\ UNCHANGED <<today, invitation_key, old_invitation_keys, inv_id_filter,
                   old_invitation_filter, bridgedb_pub, old_bridgedb_keys,
                   bridgedb_pub_filter, old_openinv_filter,
                   blockage_migration_table, advances, last>>

\* BridgeAuth::rotate_bridgedb_keys: the current key and its filter are
\* retired together, a new key starts with an empty filter.
rotate_bridgedb_keys ==
    /\ old_bridgedb_keys' = Append(old_bridgedb_keys, bridgedb_pub)
    /\ old_openinv_filter' = Append(old_openinv_filter, bridgedb_pub_filter)
    /\ bridgedb_pub' = bridgedb_pub + 1
    /\ bridgedb_pub_filter' = {}
    /\ UNCHANGED <<today, lox_key, old_lox_keys, id_filter, old_lox_filter,
                   invitation_key, old_invitation_keys, inv_id_filter,
                   old_invitation_filter, blockage_migration_table, advances, last>>

\* BridgeAuth::rotate_invitation_keys
rotate_invitation_keys ==
    /\ old_invitation_keys' = Append(old_invitation_keys, invitation_key)
    /\ old_invitation_filter' = Append(old_invitation_filter, inv_id_filter)
    /\ invitation_key' = invitation_key + 1
    /\ inv_id_filter' = {}
    /\ UNCHANGED <<today, lox_key, old_lox_keys, id_filter, old_lox_filter,
                   bridgedb_pub, old_bridgedb_keys, bridgedb_pub_filter,
                   old_openinv_filter, blockage_migration_table, advances, last>>

\* The bridges of bucket b are blocked: the blockage migration table gets
\* the row b -> BlockedTo(b).
block_bucket(b) ==
    /\ <<b, BlockedTo(b)>> \notin blockage_migration_table
    /\ blockage_migration_table' = blockage_migration_table \cup {<<b, BlockedTo(b)>>}
    /\ UNCHANGED <<today, filters, keys, advances, last>>

\* The day changes.
advance_day(steps) ==
    /\ \E k \in steps : today' = today + k
    /\ advances' = advances + 1
    /\ UNCHANGED <<issuer, last>>

\* -------------------------------------------------------------- the users
\* The State the client kept for the request in last.
StateOf(req) ==
    CASE req.op = "open_invite" -> open_invite_request(req.invite, req.id_client).state
      [] req.op = "migration" -> migration_show(req.cred, req.mig, req.id_client).state
      [] req.op = "level_up" -> level_up_show(req.cred, req.reach, req.id_client).state
      [] req.op = "issue_invite" -> issue_invite_show(req.cred, req.reach, req.id_client).state
      [] req.op = "redeem_invite" -> redeem_invite_show(req.inv, req.id_client).state
      [] req.op = "check_blockage" -> check_blockage_show(req.cred).state
      [] req.op = "blockage_migration" ->
            blockage_migration_show(req.cred, req.mig, req.id_client).state
      [] req.op = "update_cred" ->
            update_cred_request(req.cred, req.OldPubKey, req.id_client).state
      [] req.op = "update_invite" ->
            update_invite_request(req.inv, req.OldPubKey, req.id_client).state
      [] OTHER -> [op |-> "none"]

\* The client's handle_response for the response in last.
handle_response(state, resp, lox_pub, invitation_pub) ==
    CASE resp.op = "open_invite" -> open_invite_handle_response(state, resp, lox_pub)
      [] resp.op = "migration" -> migration_handle_response(state, resp, lox_pub)
      [] resp.op = "level_up" -> level_up_handle_response(state, resp, lox_pub)
      [] resp.op = "issue_invite" ->
            issue_invite_handle_response(state, resp, lox_pub, invitation_pub)
      [] resp.op = "redeem_invite" -> redeem_invite_handle_response(state, resp, lox_pub)
      [] resp.op = "check_blockage" -> check_blockage_handle_response(state, resp)
      [] resp.op = "blockage_migration" ->
            blockage_migration_handle_response(state, resp, lox_pub)
      [] resp.op = "update_cred" -> update_cred_handle_response(state, resp, lox_pub)
      [] resp.op = "update_invite" ->
            update_invite_handle_response(state, resp, invitation_pub)
      [] OTHER -> Err("none")

\* The user passes the Response to handle_response, with the issuer's
\* public keys as the user knows them.
\* What the user holds after handle_response returned Ok(cred) for a
\* request of protocol op: the new Lox credential replaces the one shown,
\* redeem_invite spends the Invitation, issue_invite returns a pair.
Kept(h, op, cred) ==
    CASE op = "issue_invite" -> Held(cred[1], cred[2])
      [] op = "redeem_invite" -> Held(cred, NoInvitation)
      [] op = "update_invite" -> Held(h.lox, cred)
      [] op = "check_blockage" -> h
      [] OTHER -> Held(cred, h.inv)

\* The user passes the Response to handle_response, with the issuer's
\* public keys as the user knows them; the user that is followed keeps
\* the result.
HandleResponseOf(followed) ==
    /\ last.res = "Response" /\ last.client = "none"
    /\ \E lox_pub \in LoxKeys, invitation_pub \in InvitationKeys :
        LET r == handle_response(StateOf(last.req), last.resp, lox_pub, invitation_pub)
        IN  /\ last' = [last EXCEPT !.client = r.res, !.cred = r.cred,
                                    !.pub = <<lox_pub, invitation_pub>>]
            /\ held' = IF followed /\ r.res = "Ok"
                       THEN Kept(held, last.req.op, r.cred) ELSE held
    /\ UNCHANGED <<today, issuer, advances, batch, service>>
HandleResponse == HandleResponseOf(FALSE)

IssuerInit ==
    /\ today = StartDay
    /\ lox_key = 1 /\ old_lox_keys = <<>> /\ id_filter = {} /\ old_lox_filter = <<>>
    /\ invitation_key = 1 /\ old_invitation_keys = <<>>
    /\ inv_id_filter = {} /\ old_invitation_filter = <<>>
    /\ bridgedb_pub = 1 /\ old_bridgedb_keys = <<>>
    /\ bridgedb_pub_filter = {} /\ old_openinv_filter = <<>>
    /\ blockage_migration_table = {}
    /\ advances = 0
    /\ last = NoCall
Init == IssuerInit /\ held = NoHeld /\ batch = NoBatch /\ service = NoService

\* The operations of the issuer and of its users.
OpenInvite == (\E req \in OpenInviteRequests : handle_open_invite(req)) /\ UNCHANGED <<held, batch, service>>
MigrationStep == (\E req \in MigrationRequests : handle_migration(req)) /\ UNCHANGED <<held, batch, service>>
LevelUp == (\E req \in LevelUpRequests : handle_level_up(req)) /\ UNCHANGED <<held, batch, service>>
IssueInvite == (\E req \in IssueInviteRequests : handle_issue_invite(req)) /\ UNCHANGED <<held, batch, service>>
RedeemInvite == (\E req \in RedeemInviteRequests : handle_redeem_invite(req)) /\ UNCHANGED <<held, batch, service>>
CheckBlockage == (\E req \in CheckBlockageRequests : handle_check_blockage(req)) /\ UNCHANGED <<held, batch, service>>
BlockageMigration == (\E req \in BlockageMigrationRequests : handle_blockage_migration(req)) /\ UNCHANGED <<held, batch, service>>
UpdateCred == (\E req \in UpdateCredRequests : handle_update_cred(req)) /\ UNCHANGED <<held, batch, service>>
UpdateInvite == (\E req \in UpdateInviteRequests : handle_update_invite(req)) /\ UNCHANGED <<held, batch, service>>
Events == Rotations + advances + Cardinality(blockage_migration_table)
RotateLoxKeys == Events < MaxEvents /\ rotate_lox_keys /\ UNCHANGED <<held, batch, service>>
RotateInvitationKeys == Events < MaxEvents /\ rotate_invitation_keys /\ UNCHANGED <<held, batch, service>>
RotateBridgedbKeys == Events < MaxEvents /\ rotate_bridgedb_keys /\ UNCHANGED <<held, batch, service>>
BlockBucket == Events < MaxEvents /\ block_bucket(2) /\ UNCHANGED <<held, batch, service>>
AdvanceDay == Events < MaxEvents /\ advance_day(DaySteps) /\ UNCHANGED <<held, batch, service>>

Next ==
    \/ OpenInvite
    \/ MigrationStep
    \/ LevelUp
    \/ IssueInvite
    \/ RedeemInvite
    \/ CheckBlockage
    \/ BlockageMigration
    \/ UpdateCred
    \/ UpdateInvite
    \/ HandleResponse
    \/ RotateLoxKeys
    \/ RotateInvitationKeys
    \/ RotateBridgedbKeys
    \/ BlockBucket
    \/ AdvanceDay

Spec == Init /\ [][Next]_vars

\* The open-invitation protocol alone, with more rotations of the
\* bridge-distribution key.
RotateBridgedbKeysOften ==
    /\ Len(old_bridgedb_keys) < MaxBridgedbRotations /\ rotate_bridgedb_keys
    /\ UNCHANGED <<held, batch, service>>
AdvanceDayOften == advances < MaxAdvances /\ advance_day(DaySteps) /\ UNCHANGED <<held, batch, service>>

NextOpenInvite ==
    \/ OpenInvite
    \/ HandleResponse
    \/ RotateBridgedbKeysOften
    \/ AdvanceDayOften

SpecOpenInvite == Init /\ [][NextOpenInvite]_vars

\* One user followed through every credential the issuer gives in exchange
\* for the one held, over MaxFollowedAdvances changes of day; the buckets the
\* user is in may get blocked.  The user starts with the untrusted credential
\* open_invite issued 30 days before the run starts, or with a level 1
\* credential that migration issued 512 days before the run starts and that
\* was never used since.
FollowedInit ==
    /\ IssuerInit
    /\ \E c \in {Lox(lox_key, 11, BucketAttr(1), 0, StartDay - 30, 0, 0),
                  Lox(lox_key, 12, BucketAttr(2), 1, StartDay - 512, 0, 0)} :
        held = Held(c, NoInvitation)
    /\ batch = NoBatch /\ service = NoService
HandleResponseFollowed == HandleResponseOf(TRUE)

\* The user sends a request when no response is waiting to be handled.
Idle == last.res # "Response" \/ last.client # "none"
\* Today's reachability credential of the user's bucket.
ReachOf(c) == BucketReachability(today, c.bucket)

MigrationFollowed ==
    /\ Idle /\ UNCHANGED <<held, batch, service>>
    /\ \E m \in UserMigrations, i \in ClientShares :
        LET r == migration_request(held.lox, m, i)
        IN  r.err = "none" /\ handle_migration(r.req)
\* The level_up request is sent even when level_up::request would refuse
\* to build it.
LevelUpFollowed ==
    /\ Idle /\ UNCHANGED <<held, batch, service>>
    /\ \E i \in ClientShares :
        handle_level_up(level_up_show(held.lox, ReachOf(held.lox), i).req)
BlockageMigrationFollowed ==
    /\ Idle /\ UNCHANGED <<held, batch, service>>
    /\ \E m \in UserMigrations, i \in ClientShares :
        LET r == blockage_migration_request(held.lox, m, i)
        IN  r.err = "none" /\ handle_blockage_migration(r.req)
IssueInviteFollowed ==
    /\ Idle /\ UNCHANGED <<held, batch, service>>
    /\ \E i \in ClientShares :
        LET r == issue_invite_request(held.lox, ReachOf(held.lox), i, today)
        IN  r.err = "none" /\ handle_issue_invite(r.req)
RedeemInviteFollowed ==
    /\ Idle /\ UNCHANGED <<held, batch, service>>
    /\ \E inv \in UserInvitations, i \in ClientShares :
        LET r == redeem_invite_request(inv, i, today)
        IN  r.err = "none" /\ handle_redeem_invite(r.req)
CheckBlockageFollowed ==
    /\ Idle /\ UNCHANGED <<held, batch, service>>
    /\ LET r == check_blockage_request(held.lox)
       IN  r.err = "none" /\ handle_check_blockage(r.req)
BlockBucketFollowed ==
    /\ block_bucket(held.lox.bucket[1]) /\ held.lox.trust_level >= MIN_TRUST_LEVEL
    /\ UNCHANGED <<held, batch, service>>
AdvanceDayFollowed ==
    advances < MaxFollowedAdvances /\ advance_day(FollowedDaySteps) /\ UNCHANGED <<held, batch, service>>

NextFollowed ==
    \/ MigrationFollowed
    \/ LevelUpFollowed
    \/ BlockageMigrationFollowed
    \/ HandleResponseFollowed
    \/ BlockBucketFollowed
    \/ AdvanceDayFollowed

SpecFollowed == FollowedInit /\ [][NextFollowed]_vars

\* The same user, who also issues invitations, redeems the invitation held
\* (and is followed as the invited user from then on) and asks whether the
\* bucket is blocked, over MaxInvitationAdvances changes of day.
AdvanceDayInvitations ==
    advances < MaxInvitationAdvances /\ advance_day(FollowedDaySteps) /\ UNCHANGED <<held, batch, service>>

NextInvitations ==
    \/ MigrationFollowed
    \/ LevelUpFollowed
    \/ BlockageMigrationFollowed
    \/ IssueInviteFollowed
    \/ RedeemInviteFollowed
    \/ CheckBlockageFollowed
    \/ HandleResponseFollowed
    \/ BlockBucketFollowed
    \/ AdvanceDayInvitations

SpecInvitations == FollowedInit /\ [][NextInvitations]_vars

\* An invited user followed from the Invitation received, issued the day
\* before the run starts, until it is redeemed: the Invitation is shown
\* to handle_redeem_invite on any day, also when redeem_invite::request
\* would refuse to build the request, and is brought to the current key with
\* update_invite after the invitation keys were rotated.
RedeemInit ==
    /\ IssuerInit
    /\ held = Held(NoLox, Invitation(invitation_key, 15, StartDay - 1, BucketAttr(2), 1))
    /\ batch = NoBatch /\ service = NoService
RedeemInviteShown ==
    /\ Idle /\ UNCHANGED <<held, batch, service>>
    /\ \E inv \in UserInvitations, i \in ClientShares :
        handle_redeem_invite(redeem_invite_show(inv, i).req)
UpdateInviteFollowed ==
    /\ Idle /\ UNCHANGED <<held, batch, service>>
    /\ \E inv \in UserInvitations, i \in ClientShares :
        handle_update_invite(update_invite_request(inv, inv.key, i).req)
RotateInvitationKeysFollowed ==
    Len(old_invitation_keys) < MaxInvitationRotations
        /\ rotate_invitation_keys /\ UNCHANGED <<held, batch, service>>
AdvanceDayRedeem ==
    advances < MaxRedeemAdvances /\ advance_day(RedeemDaySteps) /\ UNCHANGED <<held, batch, service>>

NextRedeem ==
    \/ RedeemInviteShown
    \/ UpdateInviteFollowed
    \/ RotateInvitationKeysFollowed
    \/ HandleResponseFollowed
    \/ AdvanceDayRedeem

SpecRedeem == RedeemInit /\ [][NextRedeem]_vars

\* The user of SpecFollowed, who also asks whether the bucket is blocked.
NextBlockages == NextFollowed \/ CheckBlockageFollowed

SpecBlockages == FollowedInit /\ [][NextBlockages]_vars

\* ------------------------------------------------------------ properties
\* The handlers that consume the identifier of the credential they are shown.
LoxConsumers ==
    {"handle_migration", "handle_level_up", "handle_issue_invite",
     "handle_blockage_migration"}
Consumers == LoxConsumers \cup {"handle_redeem_invite"}
\* The kinds of identifier: invite_id, inv_id, Lox id (named by a protocol
\* that reveals it).
IdKinds == {"open_invite", "redeem_invite", "migration"}
KindOf(op) ==
    CASE op = "open_invite" -> "open_invite"
      [] op \in {"redeem_invite", "update_invite"} -> "redeem_invite"
      [] OTHER -> "migration"

\* C1: an identifier is consumed at most once.  The filters of a kind never
\* lose an identifier, and a Response of handle_migration, handle_level_up,
\* handle_issue_invite, handle_blockage_migration, handle_redeem_invite or
\* handle_open_invite is given only for an identifier that was in no filter
\* of its kind, which is in such a filter from then on: every later request
\* revealing it to these handlers gets VerificationFailure.
C1_ConsumedAtMostOnce ==
    [][/\ \A op \in IdKinds : SpentIds(op) \subseteq SpentIds(op)'
       /\ (last'.call \in Consumers \cup {"handle_open_invite"}) =>
            /\ last'.res = "Response" =>
                /\ ~last'.spent
                /\ \A op \in IdKinds :
                      KindOf(last'.req.op) = op => IdOf(last'.req) \in SpentIds(op)'
            /\ last'.spent => last'.res = "VerificationFailure"]_vars

\* A request whose proof verifies is rejected by a consuming handler because
\* its identifier was consumed before.
C1_Witness ==
    /\ last.call \in LoxConsumers
    /\ last.res = "VerificationFailure" /\ last.why = "filter"
    /\ last.proofOk /\ last.checksOk /\ last.spent

\* C2 as stated: whichever the handler, a Request that was answered with a
\* Response is rejected with VerificationFailure when it is submitted again.
C2_ReplayRejected ==
    last.replay => last.res = "VerificationFailure"

\* C2, amended: a Request that was answered with a Response by a handler
\* other than handle_check_blockage is rejected with VerificationFailure when
\* it is submitted again.
C2_ReplayRejectedButCheckBlockage ==
    (last.replay /\ last.call # "handle_check_blockage")
        => last.res = "VerificationFailure"

\* An answered update_cred request is submitted again and rejected.
C2_Witness ==
    /\ last.replay /\ last.call = "handle_update_cred"
    /\ last.res = "VerificationFailure" /\ last.why = "filter"

\* The requests that show the Lox credential c to handle_check_blockage and,
\* with the Migration credentials the response decrypts to, to
\* handle_blockage_migration.
StillAccepted(c) ==
    LET shown == check_blockage_show(c)
        r == handle_check_blockage_result(shown.req)
    IN  /\ r.o.res = "Response"
        /\ \A m \in decrypt_cred(r.o.resp.Qk, shown.state.id, shown.state.bucket,
                                 MigrationType.Blockage, r.o.resp.enc_migration_table) :
            \A i \in ClientShares, s \in ServerShares :
                handle_blockage_migration_result(
                    blockage_migration_show(c, m, i).req, s).o.res = "Response"

\* C3: handle_check_blockage only reads id_filter.  A call of it changes no
\* filter and is rejected when the revealed id is in the filter; and a
\* credential it has accepted is still accepted, under the same Lox key, by
\* handle_check_blockage and by handle_blockage_migration.
C3_CheckBlockageReadsOnly ==
    [][(last'.call = "handle_check_blockage") =>
        /\ (last' # last => filters' = filters)
        /\ ~last'.consumed
        /\ last'.spent => last'.res = "VerificationFailure"
        /\ last'.res = "Response" =>
              \A c \in UserLox' :
                  (c = last'.req.cred /\ c.key = lox_key') => StillAccepted(c)']_vars

\* A credential is accepted by handle_check_blockage twice in a row, and the
\* blockage migration table has a row for its bucket.
C3_Witness ==
    /\ last.call = "handle_check_blockage" /\ last.res = "Response" /\ last.replay
    /\ last.resp.enc_migration_table # {}

\* The days a request function may be called on.
Days == {StartDay + d : d \in 0..(MaxEvents + MaxAdvances)}

\* req is a Request its protocol's request function returns.
Requested(req) ==
    LET built(r) == r.err = "none" /\ r.req = req
    IN  CASE req.op = "open_invite" ->
                open_invite_request(req.invite, req.id_client).req = req
          [] req.op = "migration" ->
                built(migration_request(req.cred, req.mig, req.id_client))
          [] req.op = "level_up" ->
                \E now \in Days :
                    built(level_up_request(req.cred, req.reach, req.id_client, now))
          [] req.op = "issue_invite" ->
                \E now \in Days :
                    built(issue_invite_request(req.cred, req.reach, req.id_client, now))
          [] req.op = "redeem_invite" ->
                \E now \in Days : built(redeem_invite_request(req.inv, req.id_client, now))
          [] req.op = "check_blockage" -> built(check_blockage_request(req.cred))
          [] req.op = "blockage_migration" ->
                built(blockage_migration_request(req.cred, req.mig, req.id_client))
          [] req.op = "update_cred" ->
                built(update_cred_request(req.cred, req.OldPubKey, req.id_client))
          [] req.op = "update_invite" ->
                built(update_invite_request(req.inv, req.OldPubKey, req.id_client))
          [] OTHER -> FALSE

\* The public keys handle_response was given in the exchange l are those of
\* the keys the issuer computed the MACs of the response with.
IssuerKeys(l) ==
    CASE l.resp.op = "issue_invite" -> l.pub = <<l.resp.mac.key, l.resp.mac_inv.key>>
      [] l.resp.op = "update_invite" -> l.pub[2] = l.resp.mac_inv.key
      [] l.resp.op = "check_blockage" -> TRUE
      [] OTHER -> l.pub[1] = l.resp.mac.key

\* handle_response returned, in the exchange l, the credential(s) the issuer
\* MACed.
IssuedCredential(l) ==
    /\ l.client = "Ok"
    /\ CASE l.resp.op = "issue_invite" -> l.cred = <<l.resp.mac, l.resp.mac_inv>>
         [] l.resp.op = "update_invite" -> l.cred = l.resp.mac_inv
         [] l.resp.op = "check_blockage" ->
                \E row \in l.resp.enc_migration_table : l.cred = row.mac
         [] OTHER -> l.cred = l.resp.mac

\* C4 as stated: in every protocol, for a Request and State the request
\* function returned and the Response the handler returned for it,
\* handle_response (given the issuer's public keys) succeeds and returns a
\* credential with the attributes the issuer MACed.
C4_HandleResponseSucceeds ==
    (last.client # "none" /\ Requested(last.req) /\ IssuerKeys(last))
        => IssuedCredential(last)

\* C4, amended: the same in every protocol but check_blockage; there
\* handle_response succeeds, with the Migration credential of the encrypted
\* table, when the blockage migration table had a row for the bucket of the
\* credential, and fails with VerificationFailure when it had none.
C4_HandleResponseSucceedsButCheckBlockage ==
    (last.client # "none" /\ Requested(last.req) /\ IssuerKeys(last)) =>
        IF last.resp.op = "check_blockage"
           /\ \A row \in last.resp.enc_migration_table :
                  row.mac.from_bucket # last.req.cred.bucket
        THEN last.client = "VerificationFailure"
        ELSE IssuedCredential(last)

\* handle_response of blockage_migration has returned the level 1 credential
\* the issuer MACed.
C4_Witness ==
    /\ last.call = "handle_blockage_migration" /\ last.client = "Ok"
    /\ last.cred = last.resp.mac /\ last.cred.trust_level = 1
    /\ last.cred.invites_remaining = 0 /\ last.cred.blockages = 1

\* C5 as stated: a handler calls filter() only once the proof of the request
\* has verified and all its other checks have passed, so a call changes a
\* filter only for a request whose proof verifies, whose token or credential
\* is valid and whose bucket is in the bridge table.
C5_FilterOnlyAfterChecks ==
    last.consumed => (last.proofOk /\ last.checksOk)

RejectedLox(c) ==
    \A i \in ClientShares, s \in ServerShares :
        /\ \A m \in UserMigrations \cup {MigrationOf(c)} :
            /\ handle_migration_result(migration_show(c, m, i).req, s).o.res
                  = "VerificationFailure"
            /\ handle_blockage_migration_result(
                   blockage_migration_show(c, m, i).req, s).o.res = "VerificationFailure"
        /\ \A r \in UserReach \cup {BucketReachability(today, c.bucket)} :
            /\ handle_level_up_result(level_up_show(c, r, i).req, s).o.res
                  = "VerificationFailure"
            /\ handle_issue_invite_result(issue_invite_show(c, r, i).req, s, s).o.res
                  = "VerificationFailure"
        /\ handle_check_blockage_result(check_blockage_show(c).req).o.res
              = "VerificationFailure"
\* handle_redeem_invite rejects the Invitation c.
RejectedInvitation(c) ==
    \A i \in ClientShares, s \in ServerShares :
        handle_redeem_invite_result(redeem_invite_show(c, i).req, s).o.res
            = "VerificationFailure"

\* C7: once a consuming handler has returned a Response, the identifier of
\* the credential shown is in the filter, whether handle_response has run
\* or not; the credential shown is rejected by every consuming handler and
\* by handle_check_blockage, and while the Response has not been handled
\* the user holds no new credential.
C7_SpentBeforeResponseHandled ==
    (last.call \in Consumers /\ last.res = "Response") =>
        /\ IdOf(last.req) \in SpentIds(last.req.op)
        /\ last.client = "none" => last.cred = NoLox
        /\ IF last.call = "handle_redeem_invite"
           THEN RejectedInvitation(last.req.inv)
           ELSE RejectedLox(last.req.cred)

\* handle_issue_invite has answered for a level 3 credential and the Response
\* has not been handled.
C7_Witness ==
    /\ last.call = "handle_issue_invite" /\ last.res = "Response"
    /\ last.client = "none" /\ last.req.cred.trust_level >= MIN_TRUST_LEVEL
    /\ last.req.id \in id_filter

\* C8: handle_open_invite accepts a token only if its bucket is in the
\* bridge table, and then MACs a Lox credential with trust_level 0,
\* invites_remaining 0, blockages 0, level_since today, bucket
\* to_scalar(bucket_id, key of the bucket) and id the sum of the two shares;
\* handle_response returns that credential.
C8_OpenInviteCredential ==
    [][(last'.call = "handle_open_invite") =>
        /\ last'.res # "panic"
        /\ (last' # last /\ last'.client = "none" /\ last'.res = "Response") =>
            LET b == last'.req.invite.bucket_id
            IN  /\ b \in bridge_table_buckets
                /\ last'.resp.mac =
                       Lox(lox_key, last'.req.id_client + last'.resp.id_server,
                           to_scalar(b, bridge_table_keys[b]), 0, today, 0, 0)
        /\ (last'.client # "none" /\ IssuerKeys(last')) =>
            /\ last'.client = "Ok"
            /\ last'.cred = last'.resp.mac]_vars

\* An open invitation was accepted the day after the run started, and
\* handle_response has returned the credential.
C8_Witness ==
    /\ last.call = "handle_open_invite" /\ last.client = "Ok"
    /\ last.cred.level_since = StartDay + 1 /\ last.cred.bucket = BucketAttr(1)
    /\ last.cred.trust_level = 0

\* C9 as stated: handle_open_invite accepts a token that verifies under the
\* current bridge-distribution key or under any retained old key, and whose
\* invite_id is in no filter (with a bucket of the bridge table and a proof
\* that verifies).
C9_AnyRetainedKey ==
    (last.call = "handle_open_invite" /\ last.proofOk /\ last.checksOk /\ ~last.spent)
        => last.res = "Response"

Answered(name) == last.call = name /\ last.res = "Response"

\* C11: an accepted level_up run on a credential of level L issues a Lox
\* credential with trust_level = min(L + 1, MAX_LEVEL), level_since = today,
\* invites_remaining = LEVEL_INVITATIONS[L] and the bucket and blockages of
\* the credential shown; at MAX_LEVEL the level stays MAX_LEVEL.  The
\* credential handle_response returns is the one issued.
C11_LevelUpCredential ==
    [][(last' # last /\ Answered("handle_level_up")')
        => LET old == last'.req.cred
               new == last'.resp.mac
               L == old.trust_level
           IN  /\ new.trust_level = (IF L + 1 < MAX_LEVEL THEN L + 1 ELSE MAX_LEVEL)
               /\ L = MAX_LEVEL => new.trust_level = L
               /\ last'.client = "none" => new.level_since = today
               /\ new.invites_remaining = Index(LEVEL_INVITATIONS, L)
               /\ new.bucket = old.bucket
               /\ new.blockages = old.blockages
               /\ last'.client = "none" => new.key = lox_key
               /\ last'.client = "Ok" => last'.cred = new]_vars
\* A level 4 credential was shown, a fresh level 4 credential was issued
\* and the user accepted it.
C11_Witness ==
    /\ Answered("handle_level_up") /\ last.client = "Ok"
    /\ last.req.cred.trust_level = MAX_LEVEL
    /\ last.cred.trust_level = MAX_LEVEL
    /\ last.cred.invites_remaining = 8
    /\ last.cred.level_since > last.req.cred.level_since

\* The level 1 credential migration issued on day 1000, on day 1014.
S2Credential(c) == c.trust_level = 1 /\ c.level_since = 1000 /\ c.key = lox_key
\* C12 as stated: on day 1014, level_up on the level 1 credential issued on
\* day 1000, with the reachability credential of the day, succeeds and the
\* result has trust_level = 2 and invites_remaining = 4.
C12_LevelUpScenario ==
    (today = 1014 /\ S2Credential(held.lox) /\ ~Seen(id_filter, held.lox.id))
        => \A i \in ClientShares, s \in ServerShares :
            LET r == level_up_request(held.lox, ReachOf(held.lox), i, today)
                o == handle_level_up_result(r.req, s).o
            IN  /\ r.err = "none" /\ o.res = "Response"
                /\ o.resp.mac.trust_level = 2
                /\ o.resp.mac.invites_remaining = 4
\* C12 amended: the same run succeeds and the result has trust_level = 2
\* and invites_remaining = LEVEL_INVITATIONS[1] = 2.
C12_LevelUpScenarioTwoInvites ==
    (today = 1014 /\ S2Credential(held.lox) /\ ~Seen(id_filter, held.lox.id))
        => \A i \in ClientShares, s \in ServerShares :
            LET r == level_up_request(held.lox, ReachOf(held.lox), i, today)
                o == handle_level_up_result(r.req, s).o
                c == level_up_handle_response(r.state, o.resp, lox_key)
            IN  /\ r.err = "none" /\ o.res = "Response"
                /\ o.resp.mac.trust_level = 2
                /\ o.resp.mac.invites_remaining = 2
                /\ c = Ok(o.resp.mac)
\* The run took place: the user holds the level 2 credential issued on day
\* 1014 in exchange for the level 1 credential of day 1000.
C12_Witness ==
    /\ Answered("handle_level_up") /\ last.client = "Ok"
    /\ last.req.cred.trust_level = 1 /\ last.req.cred.level_since = 1000
    /\ last.resp.level_since = 1014
    /\ held.lox = last.cred /\ held.lox.trust_level = 2

\* The days a client may pass to level_up::request as today: the issuer's
\* day, the days next to it, and days far enough for a credential to expire.
RequestDays == {today - 1, today, today + 1, today + 512, today + 600}

\* C13: for a credential of level L in 1..MAX_LEVEL, level_up::request
\* returns TimeThresholdNotMet(level_since + LEVEL_INTERVAL[L] - today) and
\* builds no Request when level_since + LEVEL_INTERVAL[L] > today; it returns
\* CredentialExpired when today - (level_since + LEVEL_INTERVAL[L]) > 511;
\* and ExceededBlockagesThreshold when the time threshold is met (and the
\* credential has not expired) but blockages > MAX_BLOCKAGES[L].
C13_LevelUpRequestErrors ==
    \A now \in RequestDays, i \in ClientShares :
        LET c == held.lox
            L == c.trust_level
            r == level_up_request(c, ReachOf(c), i, now)
            due == c.level_since + Index(LEVEL_INTERVAL, L)
        IN  L \in 1..MAX_LEVEL
            => /\ due > now
                    => /\ r.err = "TimeThresholdNotMet" /\ r.days = due - now
                       /\ "req" \notin DOMAIN r
               /\ now - due > 511 => r.err = "CredentialExpired"
               /\ (now - due \in 0..511 /\ c.blockages > Index(MAX_BLOCKAGES, L))
                    => r.err = "ExceededBlockagesThreshold"
\* Scenario S3 and the other two cases: the level 1 credential of day 1000
\* is one day short on day 1013; a credential that was due more than 511
\* days ago; a credential with more blockages than its level allows, on a
\* day the threshold is met.
C13_Witness ==
    \/ /\ held.lox.trust_level = 1 /\ held.lox.level_since = 1000 /\ today = 1014
       /\ level_up_request(held.lox, ReachOf(held.lox), 20, today - 1)
            = [err |-> "TimeThresholdNotMet", days |-> 1]
    \/ /\ held.lox.trust_level = 1 /\ held.lox.level_since = StartDay - 512
       /\ today = StartDay + 14
       /\ level_up_request(held.lox, ReachOf(held.lox), 20, today).err = "CredentialExpired"
    \/ /\ held.lox.trust_level \in 1..MAX_LEVEL
       /\ held.lox.blockages > Index(MAX_BLOCKAGES, held.lox.trust_level)
       /\ level_up_request(held.lox, ReachOf(held.lox), 20, today).err
            = "ExceededBlockagesThreshold"

\* The handlers that issue a Lox credential in exchange for a Lox credential.
LoxExchanges == LoxConsumers \cup {"handle_update_cred"}

C15_LevelUpFromLevelOneOnly ==
    /\ \A i \in ClientShares :
        held.lox.trust_level \notin 1..MAX_LEVEL
            => level_up_request(held.lox, ReachOf(held.lox), i, today).err
                    = "InvalidField(trust_level)"
    /\ Answered("handle_level_up") => last.req.level \in 1..MAX_LEVEL
    /\ (last.res = "Response" /\ last.call \in LoxExchanges
            /\ last.req.cred.trust_level = 0 /\ last.resp.mac.trust_level = 1)
        => last.call = "handle_migration"

\* The last call was answered with a Response that carries a Lox credential.
LoxIssuers ==
    {"open_invite", "migration", "level_up", "issue_invite", "redeem_invite",
     "blockage_migration", "update_cred"}
IssuesLox == last.res = "Response" /\ last.resp.op \in LoxIssuers

\* C16: every Lox credential the issuer issues, after any sequence of
\* accepted runs, has 0 <= trust_level <= MAX_LEVEL; so has every
\* credential the user holds.
C16_LevelInRange ==
    /\ IssuesLox => last.resp.mac.trust_level \in 0..MAX_LEVEL
    /\ held.lox.trust_level \in 0..MAX_LEVEL
\* The two ends: level_up on a level 4 credential issued level 4, and
\* blockage_migration on a level 3 credential issued level 1.
C16_Witness ==
    \/ /\ Answered("handle_level_up") /\ last.client = "none"
       /\ last.req.level = MAX_LEVEL /\ last.resp.mac.trust_level = MAX_LEVEL
    \/ /\ Answered("handle_blockage_migration") /\ last.client = "none"
       /\ last.req.trust_level = MIN_TRUST_LEVEL /\ last.resp.mac.trust_level = 1

C20_IssueInviteCredentials ==
    [][(last' # last /\ Answered("handle_issue_invite")' /\ last'.client = "none")
        => LET old == last'.req.cred
               new == last'.resp.mac
               inv == last'.resp.mac_inv
           IN  /\ new = [old EXCEPT !.id = new.id,
                                    !.invites_remaining = old.invites_remaining - 1]
               /\ new.invites_remaining >= 0
               /\ new.id # old.id /\ new.id \notin SpentIds("issue_invite")'
               /\ new.key = lox_key
               /\ inv.inv_id \notin SpentIds("redeem_invite")
               /\ (held.inv # NoInvitation => inv.inv_id # held.inv.inv_id)
               /\ inv.date = today
               /\ inv.bucket = old.bucket /\ inv.blockages = old.blockages
               /\ inv.key = invitation_key
               /\ handle_response(StateOf(last'.req), last'.resp, lox_key,
                                   invitation_key)
                        = Ok(<<new, inv>>)]_vars
\* The user issued a second invitation: a level 2 credential with 1
\* blockage and 1 invitation left was exchanged for one with none left, and
\* the user holds it together with the Invitation of the day.
C20_Witness ==
    /\ Answered("handle_issue_invite") /\ last.client = "Ok"
    /\ last.req.cred.invites_remaining = 1 /\ last.req.cred.blockages = 1
    /\ held = Held(last.resp.mac, last.resp.mac_inv)
    /\ held.lox.invites_remaining = 0 /\ held.inv.blockages = 1
    /\ held.inv.date = today

\* ------------------------------------------------- invitations (C21 - C24)
\* C21: no Invitation is issued from a Lox credential whose
\* invites_remaining is 0: issue_invite::request returns
\* NoInvitationsRemaining and builds no Request, handle_issue_invite rejects
\* the request that shows such a credential and leaves id_filter alone, and
\* every Response of handle_issue_invite is for a credential that had an
\* invitation left.
C21_NoInvitationWithoutInvites ==
    /\ Answered("handle_issue_invite") => last.req.cred.invites_remaining > 0
    /\ \A c \in UserLox, i \in ClientShares, s \in ServerShares :
        c.invites_remaining = 0
            => LET r == issue_invite_request(c, ReachOf(c), i, today)
                   h == handle_issue_invite_result(
                            issue_invite_show(c, ReachOf(c), i).req, s, s)
               IN  /\ r.err = "NoInvitationsRemaining" /\ "req" \notin DOMAIN r
                   /\ h.o.res = "VerificationFailure"
                   /\ h.id_filter = id_filter
\* Scenario S5: a level 2 user has issued the two invitations of the level
\* and holds a credential under the current key with none left, on a day
\* the reachability credential is available.
C21_Witness ==
    /\ Answered("handle_issue_invite") /\ last.client = "Ok"
    /\ held.lox = last.resp.mac
    /\ held.lox.trust_level = 2 /\ held.lox.invites_remaining = 0
    /\ held.lox.key = lox_key /\ ~Seen(id_filter, held.lox.id)
    /\ issue_invite_request(held.lox, ReachOf(held.lox), 20, today).err
            = "NoInvitationsRemaining"

\* The days a client may pass to redeem_invite::request as today, for an
\* Invitation dated d.
RedeemDays(d) == {d - 1, d, d + 1, d + 14, d + 15, d + 16, d + 28, today}

\* C22: redeem_invite::request on an Invitation dated d returns Ok exactly
\* when d <= today <= d + INVITATION_EXPIRY, CredentialExpired when
\* today > d + INVITATION_EXPIRY and InvalidField("date") when d > today.
C22_RedeemRequestWindow ==
    \A inv \in UserInvitations, i \in ClientShares :
        \A now \in RedeemDays(inv.date) :
            LET r == redeem_invite_request(inv, i, now)
                d == inv.date
            IN  /\ r.err = "none" <=> (d <= now /\ now <= d + INVITATION_EXPIRY)
                /\ r.err = "none" => r = redeem_invite_show(inv, i)
                /\ now > d + INVITATION_EXPIRY => r.err = "CredentialExpired"
                /\ d > now => r.err = "InvalidField(date)"
\* Scenario S6 on the Invitation the user holds: 28 days after it was
\* issued, request returns CredentialExpired for that day, Ok for the 15th
\* day and InvalidField("date") for the day before it was issued.
C22_Witness ==
    /\ held.inv # NoInvitation /\ today = held.inv.date + 28
    /\ redeem_invite_request(held.inv, 20, today).err = "CredentialExpired"
    /\ redeem_invite_request(held.inv, 20, held.inv.date + 16).err = "CredentialExpired"
    /\ redeem_invite_request(held.inv, 20, held.inv.date + 15).err = "none"
    /\ redeem_invite_request(held.inv, 20, held.inv.date - 1).err = "InvalidField(date)"

\* C23: an Invitation expires.  handle_redeem_invite gives no Response for
\* an Invitation dated d on a day after d + INVITATION_EXPIRY or before d,
\* whatever was run before; update_invite after a rotation of the
\* invitation keys keeps the date, so the updated Invitation expires on the
\* same day.
C23_InvitationExpires ==
    [][/\ (last' # last /\ last'.client = "none" /\ Answered("handle_redeem_invite")')
            => /\ last'.req.inv.date <= today'
               /\ today' <= last'.req.inv.date + INVITATION_EXPIRY
       /\ (last' # last /\ Answered("handle_update_invite")')
            => /\ last'.resp.mac_inv.date = last'.req.inv.date
               /\ last'.client = "Ok" => last'.cred.date = last'.req.inv.date
       /\ \A inv \in UserInvitations, i \in ClientShares, s \in ServerShares :
            (today > inv.date + INVITATION_EXPIRY \/ today < inv.date)
                => LET h == handle_redeem_invite_result(redeem_invite_show(inv, i).req, s)
                   IN  h.o.res = "VerificationFailure" /\ h.inv_id_filter = inv_id_filter
      ]_vars
\* The Invitation was brought to the current key by update_invite, which is
\* the only reason for a refusal left but the date; it is shown more than
\* INVITATION_EXPIRY days after its date and handle_redeem_invite refuses.
C23_Witness ==
    /\ held.inv # NoInvitation
    /\ held.inv.key = invitation_key /\ old_invitation_keys # <<>>
    /\ held.inv.inv_id \notin inv_id_filter
    /\ today > held.inv.date + INVITATION_EXPIRY
    /\ last.call = "handle_redeem_invite" /\ last.res = "VerificationFailure"
    /\ last.why = "proof"

\* C24: an accepted redeem_invite request yields a Lox credential with
\* trust_level 1, invites_remaining 0, level_since = today, and the bucket
\* and blockages of the Invitation, under the current Lox key; the inv_id
\* was in no filter of the invitation key and is in inv_id_filter afterwards;
\* the client computes the same credential.
C24_RedeemedCredential ==
    [][(last' # last /\ Answered("handle_redeem_invite")')
        => LET inv == last'.req.inv
               new == last'.resp.mac
           IN  /\ last'.client = "none"
                    => /\ new = Lox(lox_key, new.id, inv.bucket, 1, today', 0,
                                    inv.blockages)
                       /\ ~Seen(inv_id_filter, inv.inv_id)
                       /\ inv_id_filter' = Insert(inv_id_filter, inv.inv_id)
               /\ new.trust_level = 1 /\ new.invites_remaining = 0
               /\ new.bucket = inv.bucket /\ new.blockages = inv.blockages
               /\ new.level_since = last'.resp.level_since
               /\ last'.client = "Ok" => last'.cred = new
               /\ (last'.client = "Ok" /\ held # NoHeld)
                    => held' = Held(new, NoInvitation)
      ]_vars
\* An Invitation with 1 blockage was redeemed on the last day it is valid,
\* after it was brought to the current key, and the user holds the level 1
\* credential.
C24_Witness ==
    /\ Answered("handle_redeem_invite") /\ last.client = "Ok"
    /\ last.req.inv.key > 1
    /\ today = last.req.inv.date + INVITATION_EXPIRY
    /\ held.lox.trust_level = 1 /\ held.lox.level_since = today
    /\ held.lox.blockages = 1 /\ held.lox.bucket = last.req.inv.bucket
    /\ Seen(inv_id_filter, last.req.inv.inv_id)
    /\ held.inv = NoInvitation

\* ------------------------------------- blockages and key rotation (C25 - C28)
\* What the two handlers answer to the requests they may receive that reveal
\* a trust level below MIN_TRUST_LEVEL: VerificationFailure, with every
\* filter as it was.
LowLevelRefused ==
    /\ \A req \in CheckBlockageRequests :
        req.level < MIN_TRUST_LEVEL
            => LET h == handle_check_blockage_result(req)
               IN  h.o.res = "VerificationFailure" /\ h.id_filter = id_filter
    /\ \A req \in BlockageMigrationRequests, s \in ServerShares :
        req.trust_level < MIN_TRUST_LEVEL
            => LET h == handle_blockage_migration_result(req, s)
               IN  h.o.res = "VerificationFailure" /\ h.id_filter = id_filter
    /\ Answered("handle_check_blockage") => last.req.level >= MIN_TRUST_LEVEL
    /\ Answered("handle_blockage_migration") => last.req.trust_level >= MIN_TRUST_LEVEL
    /\ (last.call \in {"handle_check_blockage", "handle_blockage_migration"}
            /\ last.why = "level") => last.res = "VerificationFailure" /\ ~last.consumed
\* C25 as stated: below MIN_TRUST_LEVEL both request functions return
\* InvalidField("trust_level") and both handlers return VerificationFailure
\* without changing a filter.
C25_LowLevelRefused ==
    /\ LowLevelRefused
    /\ \A c \in UserLox :
        c.trust_level < MIN_TRUST_LEVEL
            => check_blockage_request(c) = [err |-> "InvalidField(trust_level)"]
    /\ \A p \in UserLox \X UserMigrations, i \in ClientShares :
        p[1].trust_level < MIN_TRUST_LEVEL
            => blockage_migration_request(p[1], p[2], i)
                    = [err |-> "InvalidField(trust_level)"]
\* C25: below MIN_TRUST_LEVEL check_blockage::request returns
\* InvalidField("trust_level"); blockage_migration::request builds no Request
\* and returns InvalidField("trust_level") when the Migration credential is
\* for the Lox credential's id and bucket, CredentialMismatch when it is
\* not; both handlers return VerificationFailure without changing a filter.
C25_LowLevelRefusedAfterMismatch ==
    /\ LowLevelRefused
    /\ \A c \in UserLox :
        c.trust_level < MIN_TRUST_LEVEL
            => check_blockage_request(c) = [err |-> "InvalidField(trust_level)"]
    /\ \A p \in UserLox \X UserMigrations, i \in ClientShares :
        p[1].trust_level < MIN_TRUST_LEVEL
            => blockage_migration_request(p[1], p[2], i)
                    = IF p[1].id = p[2].lox_id /\ p[1].bucket = p[2].from_bucket
                      THEN [err |-> "InvalidField(trust_level)"]
                      ELSE [err |-> "CredentialMismatch"]
\* handle_blockage_migration refused a request for the trust level it
\* reveals, while a user below MIN_TRUST_LEVEL holds a Migration credential
\* of its own and one of another user.
C25_Witness ==
    /\ last.call = "handle_blockage_migration" /\ last.why = "level"
    /\ last.res = "VerificationFailure"
    /\ \E c \in UserLox, m, n \in UserMigrations :
        /\ c.trust_level < MIN_TRUST_LEVEL
        /\ blockage_migration_request(c, m, 20).err = "InvalidField(trust_level)"
        /\ blockage_migration_request(c, n, 20).err = "CredentialMismatch"
        /\ check_blockage_request(c).err = "InvalidField(trust_level)"

\* C26: an accepted blockage_migration request on a Lox credential of level
\* L >= MIN_TRUST_LEVEL yields a Lox credential with trust_level L - 2,
\* level_since = today, invites_remaining = LEVEL_INVITATIONS[L - 3],
\* blockages one more than before and the bucket the Migration credential
\* leads to; the client computes the same trust_level and
\* invites_remaining and handle_response returns the credential.
C26_BlockageMigrationCredential ==
    [][(last' # last /\ Answered("handle_blockage_migration")')
        => LET old == last'.req.cred
               mig == last'.req.mig
               new == last'.resp.mac
               state == StateOf(last'.req)
               L == old.trust_level
           IN  /\ L >= MIN_TRUST_LEVEL /\ L = last'.req.trust_level
               /\ new.trust_level = L - 2
               /\ new.level_since = last'.resp.level_since
               /\ last'.client = "none" => new.level_since = today' /\ new.key = lox_key
               /\ new.invites_remaining = Index(LEVEL_INVITATIONS, L - 3)
               /\ new.blockages = old.blockages + 1
               /\ new.bucket = mig.to_bucket /\ old.bucket = mig.from_bucket
               /\ state.trust_level = new.trust_level
               /\ Index(LEVEL_INVITATIONS, state.trust_level - 1) = new.invites_remaining
               /\ last'.client # "none"
                    => blockage_migration_handle_response(state, last'.resp, new.key)
                            = Ok(new)
               /\ (last'.client # "none" /\ last'.pub[1] = new.key)
                    => last'.client = "Ok" /\ last'.cred = new /\ held'.lox = new
      ]_vars
\* Scenario S7 and its level 4 counterpart: the user was demoted from level
\* 3 to level 1 with no invitation, or from level 4 to level 2 with 2
\* invitations, to the bucket the blocked one migrates to, and holds the
\* credential.
C26_Witness ==
    /\ Answered("handle_blockage_migration") /\ last.client = "Ok"
    /\ held.lox = last.resp.mac
    /\ held.lox.blockages = last.req.cred.blockages + 1
    /\ held.lox.bucket = BucketAttr(BlockedTo(last.req.cred.bucket[1]))
    /\ held.lox.level_since = today
    /\ \/ last.req.cred.trust_level = 4 /\ held.lox.trust_level = 2
          /\ held.lox.invites_remaining = 2 /\ held.lox.blockages = 2
       \/ last.req.cred.trust_level = 3 /\ held.lox.trust_level = 1
          /\ held.lox.invites_remaining = 0 /\ last.req.cred.invites_remaining > 0

\* C27: a credential MACed under a retired Lox key is accepted by
\* handle_update_cred exactly once.  A Response is given only for an id
\* that was not in the filter of the retired key and is in it afterwards;
\* the filters of the retired keys lose nothing; every update_cred request
\* revealing an id in the filter of the key it names is answered
\* VerificationFailure, and the request that shows an unspent credential of
\* a retired key is answered with a Response (both evaluated in the states
\* in which the handler is called).  The same holds for an Invitation and
\* handle_update_invite.
C27_UpdatedExactlyOnce ==
    [][/\ (last' # last /\ last'.client = "none" /\ Answered("handle_update_cred")')
            => LET index == Position(old_lox_keys, last'.req.OldPubKey)
               IN  /\ index # 0 /\ last'.req.cred.key = old_lox_keys[index]
                   /\ ~Seen(old_lox_filter[index], last'.req.id)
                   /\ Seen(old_lox_filter'[index], last'.req.id)
       /\ (last' # last /\ last'.client = "none" /\ Answered("handle_update_invite")')
            => LET index == Position(old_invitation_keys, last'.req.OldPubKey)
               IN  /\ index # 0 /\ last'.req.inv.key = old_invitation_keys[index]
                   /\ ~Seen(old_invitation_filter[index], last'.req.inv_id)
                   /\ Seen(old_invitation_filter'[index], last'.req.inv_id)
       /\ \A j \in DOMAIN old_lox_filter : old_lox_filter[j] \subseteq old_lox_filter'[j]
       /\ \A j \in DOMAIN old_invitation_filter :
            old_invitation_filter[j] \subseteq old_invitation_filter'[j]
       /\ last'.call = "handle_update_cred" =>
          \A req \in UpdateCredRequests, s \in ServerShares :
            LET index == Position(old_lox_keys, req.OldPubKey)
                h == handle_update_cred_result(req, s)
            IN  /\ (index # 0 /\ Seen(old_lox_filter[index], req.id))
                    => h.o.res = "VerificationFailure" /\ h.old_lox_filter = old_lox_filter
                /\ (index # 0 /\ ~Seen(old_lox_filter[index], req.id)
                        /\ req = update_cred_request(req.cred, req.cred.key, req.id_client).req)
                    => h.o.res = "Response"
       /\ last'.call = "handle_update_invite" =>
          \A req \in UpdateInviteRequests, s \in ServerShares :
            LET index == Position(old_invitation_keys, req.OldPubKey)
                h == handle_update_invite_result(req, s)
            IN  /\ (index # 0 /\ Seen(old_invitation_filter[index], req.inv_id))
                    => /\ h.o.res = "VerificationFailure"
                       /\ h.old_invitation_filter = old_invitation_filter
                /\ (index # 0 /\ ~Seen(old_invitation_filter[index], req.inv_id)
                        /\ req = update_invite_request(req.inv, req.inv.key, req.id_client).req)
                    => h.o.res = "Response"
      ]_vars
\* Scenario S9: after rotate_lox_keys the level 3 credential of the retired
\* key was updated, and the second update_cred request that shows it, its
\* proof valid, is refused because of the filter of the retired key.
C27_Witness ==
    /\ old_lox_keys = <<1>> /\ lox_key = 2
    /\ old_lox_filter = <<{13}>>
    /\ last.call = "handle_update_cred" /\ last.res = "VerificationFailure"
    /\ last.why = "filter" /\ last.proofOk /\ ~last.consumed

TableIds == {held.lox.id, 13}
TableQks == {MigrationKeyMac(i, BucketAttr(b)) : i \in TableIds, b \in BucketIds}

\* C29: of the table encrypt_table produces for a user id, decrypt_cred
\* returns a Migration credential exactly when it is given that id, the
\* attribute of the from bucket of an entry and the MigrationKey MAC Qk on
\* (id, from_bucket); the credential is the one encrypt_cred MACed, with the
\* entry's to_bucket.  For every other id, bucket or Qk it returns None, and
\* check_blockage::handle_response returns VerificationFailure for a
\* bucket without an entry.
C29_DecryptsOwnEntryOnly ==
    \A id \in TableIds :
        LET t == encrypt_table(blockage_migration_table, id, MigrationType.Blockage)
        IN  /\ \A id2 \in TableIds, b \in BucketIds, Qk \in TableQks :
                LET m == decrypt_cred(Qk, id2, BucketAttr(b), MigrationType.Blockage, t)
                    rows == {row \in blockage_migration_table : row[1] = b}
                    own == /\ id2 = id /\ rows # {}
                           /\ Qk = MigrationKeyMac(id, BucketAttr(b))
                IN  /\ (m # {}) <=> own
                    /\ own => /\ m \subseteq {e.mac : e \in t}
                              /\ \A row \in rows :
                                    m = {Migration(id, BucketAttr(b), BucketAttr(row[2]),
                                                   MigrationType.Blockage)}
            /\ \A b \in BucketIds :
                LET r == check_blockage_handle_response(
                            [id |-> id, bucket |-> BucketAttr(b)],
                            [Qk |-> MigrationKeyMac(id, BucketAttr(b)),
                             enc_migration_table |-> t])
                IN  IF \E row \in blockage_migration_table : row[1] = b
                    THEN r.res = "Ok" /\ r.cred.to_bucket = BucketAttr(BlockedTo(b))
                    ELSE r = Err("VerificationFailure")
\* Two buckets are blocked; the user, in one of them, has decrypted the
\* Migration credential of its own bucket from the table of two entries.
C29_Witness ==
    /\ Answered("handle_check_blockage") /\ last.client = "Ok"
    /\ Cardinality(last.resp.enc_migration_table) = 2
    /\ last.cred = Migration(held.lox.id, held.lox.bucket,
                             BucketAttr(BlockedTo(held.lox.bucket[1])),
                             MigrationType.Blockage)

\* The credentials of level MIN_TRUST_LEVEL or more that users of the
\* trusted buckets may show to handle_check_blockage.
Requesters ==
    {held.lox} \cup {Lox(lox_key, i, BucketAttr(b), l, today, 0, 0) :
                        i \in {41}, b \in {2, 3}, l \in {MIN_TRUST_LEVEL, MAX_LEVEL}}
\* The number of entries of an encrypted table and the sizes of its entries.
TableShape(t) == [entries |-> Cardinality(t), sizes |-> {EntryBytes(e) : e \in t}]

\* C30: in one state of the issuer, the encrypted tables of any two accepted
\* check_blockage requests have the same number of entries, one per row of
\* the blockage migration table, each with a 16-byte label and a 124-byte
\* value, whatever the buckets of the two credentials and whether or not
\* they have a row.
C30_TableShapeSameForAll ==
    \A c1, c2 \in Requesters :
        LET h1 == handle_check_blockage_result(check_blockage_show(c1).req).o
            h2 == handle_check_blockage_result(check_blockage_show(c2).req).o
        IN  (h1.res = "Response" /\ h2.res = "Response")
                => /\ TableShape(h1.resp.enc_migration_table)
                        = TableShape(h2.resp.enc_migration_table)
                   /\ Cardinality(h1.resp.enc_migration_table)
                        = Cardinality(blockage_migration_table)
                   /\ \A e \in h1.resp.enc_migration_table :
                        EntryBytes(e) = [label |-> 16, value |-> 124]
\* The user, whose bucket has no row, was answered with a table of one
\* entry that handle_response could not decrypt, and the table a user of the
\* blocked bucket would get has the same shape.
C30_Witness ==
    /\ Answered("handle_check_blockage") /\ last.client = "VerificationFailure"
    /\ Cardinality(last.resp.enc_migration_table) = 1
    /\ \A row \in blockage_migration_table : row[1] # held.lox.bucket[1]
    /\ \E c \in Requesters :
        /\ \E row \in blockage_migration_table : row[1] = c.bucket[1]
        /\ LET h == handle_check_blockage_result(check_blockage_show(c).req).o
           IN  /\ h.res = "Response"
               /\ TableShape(h.resp.enc_migration_table)
                    = TableShape(last.resp.enc_migration_table)

Mismatch(c, m) == c.id # m.lox_id \/ c.bucket # m.from_bucket
\* level_up::request gets as far as comparing the buckets.
LevelUpChecksPass(c, now) ==
    /\ c.trust_level >= 1 /\ c.trust_level <= MAX_LEVEL
    /\ c.level_since + Index(LEVEL_INTERVAL, c.trust_level) <= now
    /\ now - (c.level_since + Index(LEVEL_INTERVAL, c.trust_level)) <= 511
    /\ c.blockages <= Index(MAX_BLOCKAGES, c.trust_level)
\* migration::request and blockage_migration::request return
\* CredentialMismatch, and no Request or State, for credentials that do not
\* match.
MigrationMismatchRefused ==
    \A c \in UserLox, m \in UserMigrations, i \in ClientShares :
        Mismatch(c, m)
            => /\ migration_request(c, m, i) = [err |-> "CredentialMismatch"]
               /\ blockage_migration_request(c, m, i) = [err |-> "CredentialMismatch"]
\* C32 as stated: the same, and level_up::request and issue_invite::request
\* return CredentialMismatch whenever the bucket of the reachability
\* credential is not that of the Lox credential.
C32_MismatchRefused ==
    /\ MigrationMismatchRefused
    /\ \A c \in UserLox, r \in UserReach, i \in ClientShares :
        c.bucket # r.bucket
            => /\ level_up_request(c, r, i, today) = [err |-> "CredentialMismatch"]
               /\ issue_invite_request(c, r, i, today) = [err |-> "CredentialMismatch"]
\* C32: the same for the two migration requests; level_up::request and
\* issue_invite::request build no Request when the buckets differ, and
\* return CredentialMismatch when the checks that come first pass: the
\* level, the time and the blockages in level_up::request,
\* invites_remaining # 0 in issue_invite::request; otherwise they return
\* the error of the check that fails first.
C32_MismatchRefusedAfterEarlierChecks ==
    /\ MigrationMismatchRefused
    /\ \A c \in UserLox, r \in UserReach, i \in ClientShares :
        c.bucket # r.bucket
            => LET l == level_up_request(c, r, i, today)
                   v == issue_invite_request(c, r, i, today)
               IN  /\ "req" \notin DOMAIN l /\ "req" \notin DOMAIN v
                   /\ l.err \in {"CredentialMismatch", "InvalidField(trust_level)",
                                 "TimeThresholdNotMet", "CredentialExpired",
                                 "ExceededBlockagesThreshold"}
                   /\ (l.err = "CredentialMismatch") <=> LevelUpChecksPass(c, today)
                   /\ v.err = IF c.invites_remaining = 0
                              THEN "NoInvitationsRemaining" ELSE "CredentialMismatch"
\* A level 3 user with invitations left holds the reachability credential
\* of another bucket and the Migration credential of another user: the four
\* request functions return CredentialMismatch; for a user without
\* invitations issue_invite::request returns NoInvitationsRemaining.
C32_Witness ==
    /\ \E c \in UserLox, r \in UserReach, m \in UserMigrations :
        /\ c.bucket # r.bucket /\ r.date = today /\ Mismatch(c, m)
        /\ c.trust_level = MIN_TRUST_LEVEL /\ c.invites_remaining > 0
        /\ level_up_request(c, r, 20, today).err = "CredentialMismatch"
        /\ issue_invite_request(c, r, 20, today).err = "CredentialMismatch"
        /\ migration_request(c, m, 20).err = "CredentialMismatch"
        /\ blockage_migration_request(c, m, 20).err = "CredentialMismatch"
    /\ \E c \in UserLox, r \in UserReach :
        /\ c.bucket # r.bucket
        /\ issue_invite_request(c, r, 20, today).err = "NoInvitationsRemaining"
    /\ last.call = "handle_issue_invite" /\ last.res = "VerificationFailure"

\* The checks level_up::request and issue_invite::request make before they
\* look at the date of the reachability credential.
ReachChecksPass(c, r, now) ==
    [level_up |-> LevelUpChecksPass(c, now) /\ c.bucket = r.bucket,
     issue_invite |-> c.invites_remaining # 0 /\ c.bucket = r.bucket]
\* handle_level_up and handle_issue_invite return a Response only for a
\* reachability credential of the bucket of the Lox credential, dated the
\* issuer's today; a call with another one leaves id_filter alone.
ReachabilityOfTodayOnly ==
    /\ [][(last' # last /\ last'.client = "none" /\ last'.res = "Response"
            /\ last'.call \in {"handle_level_up", "handle_issue_invite"})
          => /\ last'.req.reach.date = today /\ today' = today
             /\ last'.req.reach.bucket = last'.req.cred.bucket]_vars
    /\ [](\A s \in ServerShares :
            /\ \A req \in LevelUpRequests :
                (req.reach.date # today \/ req.reach.bucket # req.cred.bucket)
                    => LET h == handle_level_up_result(req, s)
                       IN  h.o.res = "VerificationFailure" /\ h.id_filter = id_filter
            /\ \A req \in IssueInviteRequests :
                (req.reach.date # today \/ req.reach.bucket # req.cred.bucket)
                    => LET h == handle_issue_invite_result(req, s, s)
                       IN  h.o.res = "VerificationFailure" /\ h.id_filter = id_filter)
\* C33 as stated: the same, and level_up::request and issue_invite::request
\* return InvalidField("date") whenever the reachability credential is not
\* dated the today argument.
C33_ReachabilityOfToday ==
    /\ ReachabilityOfTodayOnly
    /\ [](\A c \in UserLox, r \in UserReach, i \in ClientShares :
            r.date # today
                => /\ level_up_request(c, r, i, today) = [err |-> "InvalidField(date)"]
                   /\ issue_invite_request(c, r, i, today) = [err |-> "InvalidField(date)"])
\* C33: the same for the two handlers; level_up::request and
\* issue_invite::request build no Request from a reachability credential
\* that is not dated the today argument, and return InvalidField("date")
\* exactly when the checks that come first pass: the level, the time, the
\* blockages and the buckets in level_up::request, invites_remaining # 0 and
\* the buckets in issue_invite::request.
C33_ReachabilityOfTodayAfterEarlierChecks ==
    /\ ReachabilityOfTodayOnly
    /\ [](\A c \in UserLox, r \in UserReach, i \in ClientShares :
            r.date # today
                => LET l == level_up_request(c, r, i, today)
                       v == issue_invite_request(c, r, i, today)
                       p == ReachChecksPass(c, r, today)
                   IN  /\ "req" \notin DOMAIN l /\ "req" \notin DOMAIN v
                       /\ (l.err = "InvalidField(date)") <=> p.level_up
                       /\ (v.err = "InvalidField(date)") <=> p.issue_invite)
\* After a day has passed, handle_level_up has refused the proof of a
\* level 3 credential shown with the reachability credential of its bucket
\* of an earlier day, which level_up::request and issue_invite::request
\* refuse with InvalidField("date") and the handlers accept with the
\* credential of today.
C33_Witness ==
    /\ today > StartDay
    /\ last.call = "handle_level_up" /\ last.res = "VerificationFailure"
    /\ last.why = "proof"
    /\ \E c \in UserLox, r \in UserReach :
        /\ c.key = lox_key /\ c.trust_level = MIN_TRUST_LEVEL /\ c.id \notin id_filter
        /\ r.bucket = c.bucket /\ r.date < today
        /\ level_up_request(c, r, 20, today).err = "InvalidField(date)"
        /\ issue_invite_request(c, r, 20, today).err = "InvalidField(date)"
        /\ handle_level_up_result(level_up_show(c, r, 20).req, 1).o.res
              = "VerificationFailure"
        /\ handle_level_up_result(level_up_show(c, ReachOf(c), 20).req, 1).o.res
              = "Response"
        /\ handle_issue_invite_result(issue_invite_show(c, r, 20).req, 1, 1).o.res
              = "VerificationFailure"
        /\ handle_issue_invite_result(issue_invite_show(c, ReachOf(c), 20).req, 1, 1).o.res
              = "Response"

\* The handlers that take a Migration credential.
MigrationHandlers == {"handle_migration", "handle_blockage_migration"}
\* Every id the Lox filters have seen, under the current and the retired keys.
LoxIdsSeen == id_filter \cup UNION Range(old_lox_filter)
\* C34: handle_migration and handle_blockage_migration answer a request only
\* when the lox_id of the Migration credential is the id revealed for the
\* Lox credential shown, and that id was in no filter before the call and is
\* in id_filter after it; the filters never forget an id; so in every state
\* each request whose Migration credential names an id the filters have seen,
\* or the id of another credential than the one shown, is refused with
\* id_filter unchanged.
C34_MigrationConsumedOnce ==
    /\ [][(last' # last /\ last'.client = "none" /\ last'.res = "Response"
            /\ last'.call \in MigrationHandlers)
          => /\ last'.req.mig.lox_id = last'.req.id
             /\ last'.req.cred.id = last'.req.id
             /\ last'.req.id \notin LoxIdsSeen
             /\ last'.req.id \in id_filter']_vars
    /\ [][LoxIdsSeen \subseteq LoxIdsSeen']_vars
    /\ [](\A s \in ServerShares :
            /\ \A req \in MigrationRequests :
                (req.mig.lox_id \in LoxIdsSeen \/ req.mig.lox_id # req.cred.id)
                    => LET h == handle_migration_result(req, s)
                       IN  h.o.res = "VerificationFailure" /\ h.id_filter = id_filter
            /\ \A req \in BlockageMigrationRequests :
                (req.mig.lox_id \in LoxIdsSeen \/ req.mig.lox_id # req.cred.id)
                    => LET h == handle_blockage_migration_result(req, s)
                       IN  h.o.res = "VerificationFailure" /\ h.id_filter = id_filter)
\* handle_migration has answered the request of a level 0 user, whose id is
\* now in id_filter; the same request is refused by the filter, and the
\* Migration credential of that user shown with the Lox credential of
\* another user is refused by the proof.
C34_Witness ==
    /\ last.call = "handle_migration" /\ last.res = "Response"
    /\ last.req.mig.lox_id = last.req.id /\ last.req.id \in id_filter
    /\ handle_migration_result(last.req, 1).o.why = "filter"
    /\ \E c \in UserLox :
        /\ c.key = lox_key /\ c.id # last.req.id /\ c.id \notin LoxIdsSeen
        /\ handle_migration_result(migration_show(c, last.req.mig, 20).req, 1).o.why
              \in {"proof", "trust_level"}
        /\ handle_blockage_migration_result(
              blockage_migration_show(c, last.req.mig, 20).req, 1).o.why = "proof"

\* The request with the Migration credential of the other type: the same
\* lox_id and buckets, MACed with the other migration_type.
OtherType(req) ==
    [req EXCEPT !.mig.migration_type =
        IF @ = MigrationType.Blockage THEN MigrationType.TrustUpgrade
        ELSE MigrationType.Blockage]
\* C35: handle_migration answers only showings of a TrustUpgrade Migration
\* credential and handle_blockage_migration only showings of a Blockage one:
\* every request with a Migration credential of the other type, also one
\* that would be answered with the credential of the right type, is refused
\* with id_filter unchanged; the credential check_blockage::handle_response
\* decrypts is of type Blockage.
C35_TypesNotInterchangeable ==
    /\ [][(last' # last /\ last'.client = "none" /\ last'.res = "Response")
          => /\ last'.call = "handle_migration"
                => /\ last'.req.mig.migration_type = MigrationType.TrustUpgrade
                   /\ last'.req.cred.trust_level = 0 /\ last'.resp.mac.trust_level = 1
             /\ last'.call = "handle_blockage_migration"
                => /\ last'.req.mig.migration_type = MigrationType.Blockage
                   /\ last'.req.cred.trust_level >= MIN_TRUST_LEVEL]_vars
    /\ [][(last' # last /\ last.call = "handle_check_blockage" /\ last'.client = "Ok")
          => last'.cred.migration_type = MigrationType.Blockage]_vars
    /\ [](\A s \in ServerShares :
            /\ \A req \in MigrationRequests \cup {OtherType(r) : r \in MigrationRequests} :
                req.mig.migration_type # MigrationType.TrustUpgrade
                    => LET h == handle_migration_result(req, s)
                       IN  h.o.res = "VerificationFailure" /\ h.id_filter = id_filter
            /\ \A req \in BlockageMigrationRequests
                            \cup {OtherType(r) : r \in BlockageMigrationRequests} :
                req.mig.migration_type # MigrationType.Blockage
                    => LET h == handle_blockage_migration_result(req, s)
                       IN  h.o.res = "VerificationFailure" /\ h.id_filter = id_filter)
\* A bucket is blocked and handle_blockage_migration has answered a level 3
\* user; the same showing with a TrustUpgrade credential fails the proof,
\* and so does the showing handle_migration would answer for a level 0
\* user when its Migration credential is of type Blockage.
C35_Witness ==
    /\ last.call = "handle_blockage_migration" /\ last.res = "Response"
    /\ last.req.mig.migration_type = MigrationType.Blockage
    /\ LET h == handle_blockage_migration_result(OtherType(last.req), 1)
       IN  h.o.why = "proof" /\ h.o.checksOk
    /\ \E req \in MigrationRequests :
        /\ handle_migration_result(req, 1).o.res = "Response"
        /\ handle_migration_result(OtherType(req), 1).o.why = "proof"

\* ------------------------------------------------- identity points (C36)
\* The points of a Request that may be replaced by the identity: the points
\* P of the credentials shown, and the points of an open_invite Request,
\* which shows no credential.  What the proof verification makes of an
\* identity point is decided outside the handler: an open_invite Request with
\* an identity point is sent both with a proof that verifies and with one
\* that does not.
RequestPoints(op) ==
    CASE op = "open_invite" -> {"D", "EncIdClient"}
      [] op \in {"migration", "blockage_migration"} -> {"P_lox", "P_mig"}
      [] op \in {"level_up", "issue_invite"} -> {"P", "P_reach"}
      [] OTHER -> {"P"}
\* The points handle_response tests.
ResponsePoints(op) ==
    CASE op = "issue_invite" -> {"P", "P_inv"}
      [] op = "check_blockage" -> {"Pk"}
      [] OTHER -> {"P"}
IdentityRequests(reqs) ==
    UNION {{WithIdentity(r, {p}) : p \in RequestPoints(r.op)} : r \in reqs}
OrIdentity(reqs) == reqs \cup IdentityRequests(reqs)

\* The outcome of the handler of req, and whether it leaves its filter alone.
HandlerOutcome(req, s) ==
    LET kept(h, name, f) == [o |-> h.o, kept |-> h[name] = f]
    IN  CASE req.op = "migration" ->
                kept(handle_migration_result(req, s), "id_filter", id_filter)
          [] req.op = "level_up" ->
                kept(handle_level_up_result(req, s), "id_filter", id_filter)
          [] req.op = "issue_invite" ->
                kept(handle_issue_invite_result(req, s, s), "id_filter", id_filter)
          [] req.op = "redeem_invite" ->
                kept(handle_redeem_invite_result(req, s), "inv_id_filter", inv_id_filter)
          [] req.op = "check_blockage" ->
                kept(handle_check_blockage_result(req), "id_filter", id_filter)
          [] req.op = "blockage_migration" ->
                kept(handle_blockage_migration_result(req, s), "id_filter", id_filter)
          [] req.op = "update_cred" ->
                kept(handle_update_cred_result(req, s), "old_lox_filter", old_lox_filter)
          [] req.op = "update_invite" ->
                kept(handle_update_invite_result(req, s), "old_invitation_filter",
                     old_invitation_filter)
CredentialRequests ==
    MigrationRequests \cup LevelUpRequests \cup IssueInviteRequests
        \cup RedeemInviteRequests \cup CheckBlockageRequests
        \cup BlockageMigrationRequests \cup UpdateCredRequests \cup UpdateInviteRequests
\* The requests the handler answers as they are; for open_invite also the
\* same with a proof that does not verify.
Answerable(reqs) ==
    {r \in reqs : \E s \in ServerShares :
        IF r.op = "open_invite"
        THEN handle_open_invite_result([r EXCEPT !.piUserBlinding = TRUE], s).o.res
                = "Response"
        ELSE HandlerOutcome(r, s).o.res = "Response"}
\* The handlers called with such a Request, as it is or with one point
\* replaced by the identity.
OpenInviteIdentity ==
    (\E req \in OrIdentity(Answerable(OpenInviteRequests)) : handle_open_invite(req))
        /\ UNCHANGED <<held, batch, service>>
MigrationIdentity ==
    (\E req \in OrIdentity(Answerable(MigrationRequests)) : handle_migration(req))
        /\ UNCHANGED <<held, batch, service>>
LevelUpIdentity ==
    (\E req \in OrIdentity(Answerable(LevelUpRequests)) : handle_level_up(req))
        /\ UNCHANGED <<held, batch, service>>
IssueInviteIdentity ==
    (\E req \in OrIdentity(Answerable(IssueInviteRequests)) : handle_issue_invite(req))
        /\ UNCHANGED <<held, batch, service>>
RedeemInviteIdentity ==
    (\E req \in OrIdentity(Answerable(RedeemInviteRequests)) : handle_redeem_invite(req))
        /\ UNCHANGED <<held, batch, service>>
CheckBlockageIdentity ==
    (\E req \in OrIdentity(Answerable(CheckBlockageRequests)) : handle_check_blockage(req))
        /\ UNCHANGED <<held, batch, service>>
BlockageMigrationIdentity ==
    (\E req \in OrIdentity(Answerable(BlockageMigrationRequests)) : handle_blockage_migration(req))
        /\ UNCHANGED <<held, batch, service>>
UpdateCredIdentity ==
    (\E req \in OrIdentity(Answerable(UpdateCredRequests)) : handle_update_cred(req))
        /\ UNCHANGED <<held, batch, service>>
UpdateInviteIdentity ==
    (\E req \in OrIdentity(Answerable(UpdateInviteRequests)) : handle_update_invite(req))
        /\ UNCHANGED <<held, batch, service>>
\* handle_response called with the Response of the issuer in which one
\* point was replaced by the identity.
HandleResponseIdentity ==
    /\ last.res = "Response" /\ last.client = "none"
    /\ \E lox_pub \in LoxKeys, invitation_pub \in InvitationKeys,
          p \in ResponsePoints(last.resp.op) :
        LET resp == WithIdentity(last.resp, {p})
            r == handle_response(StateOf(last.req), resp, lox_pub, invitation_pub)
        IN  last' = [last EXCEPT !.client = r.res, !.cred = r.cred, !.resp = resp,
                                 !.pub = <<lox_pub, invitation_pub>>]
    /\ UNCHANGED <<today, issuer, advances, held, batch, service>>

NextIdentity ==
    \/ OpenInviteIdentity
    \/ MigrationIdentity
    \/ LevelUpIdentity
    \/ IssueInviteIdentity
    \/ RedeemInviteIdentity
    \/ CheckBlockageIdentity
    \/ BlockageMigrationIdentity
    \/ UpdateCredIdentity
    \/ UpdateInviteIdentity
    \/ HandleResponse
    \/ HandleResponseIdentity
    \/ RotateLoxKeys
    \/ RotateInvitationKeys
    \/ RotateBridgedbKeys
    \/ BlockBucket
    \/ AdvanceDay

SpecIdentity == Init /\ [][NextIdentity]_vars

\* handle_open_invite refuses a Request with an identity point and leaves
\* the filters of the open-invitation tokens alone.
OpenInviteIdentityRefused ==
    \A s \in ServerShares, req \in IdentityRequests(OpenInviteRequests) :
        LET h == handle_open_invite_result(req, s)
        IN  /\ h.o.res = "VerificationFailure"
            /\ h.bridgedb_pub_filter = bridgedb_pub_filter
            /\ h.old_openinv_filter = old_openinv_filter
\* The eight handlers that are shown a credential refuse a Request in which
\* the point P of a credential is the identity, whatever else the Request
\* holds, before any other check, and leave their filter alone.
CredentialIdentityRefused ==
    \A s \in ServerShares, req \in IdentityRequests(CredentialRequests) :
        LET h == HandlerOutcome(req, s)
        IN  h.o.res = "VerificationFailure" /\ h.o.why = "identity" /\ h.kept
\* handle_response returns VerificationFailure and no credential for the
\* Response that waits to be handled when one of its points is replaced by
\* the identity, and the step that handles such a Response records that.
ResponseIdentityRefused ==
    /\ (last.res = "Response" /\ last.client = "none")
        => \A lox_pub \in LoxKeys, invitation_pub \in InvitationKeys,
              p \in ResponsePoints(last.resp.op) :
            handle_response(StateOf(last.req), WithIdentity(last.resp, {p}),
                            lox_pub, invitation_pub) = Err("VerificationFailure")
    /\ (\E p \in {"P", "P_inv", "Pk"} : is_identity(last.resp, p))
        => last.client = "VerificationFailure" /\ last.cred = NoLox
\* C36: every handler refuses a Request with an identity point and leaves
\* the filters alone, and every handle_response refuses a Response with an
\* identity point and returns no credential.
C36_IdentityRejected ==
    OpenInviteIdentityRefused /\ CredentialIdentityRefused /\ ResponseIdentityRefused

\* -------------------------------------------- a batch of invitations (C37)
\* A level 3 user followed from a credential with invites_remaining = n
\* through issue_invite, update_cred and check_blockage, without level_up
\* and blockage_migration, while the Lox key is rotated.  The user shows the
\* credential held or the one shown in the run before, also when the
\* request function would refuse to build the request.
BatchInit ==
    /\ IssuerInit
    /\ \E n \in 0..MaxBatch :
        /\ held = Held(Lox(lox_key, 13, BucketAttr(2), MIN_TRUST_LEVEL, StartDay - 1, n, 0),
                       NoInvitation)
        /\ batch = [n |-> n, issued |-> 0]
    /\ service = NoService
BatchCredentials ==
    {held.lox} \cup (IF last.res = "Response" /\ "cred" \in DOMAIN last.req
                     THEN {last.req.cred} ELSE {})
IssueInviteCounted ==
    /\ Idle /\ batch.issued <= MaxBatch /\ UNCHANGED <<held, service>>
    /\ \E c \in BatchCredentials, i \in ClientShares :
        handle_issue_invite(issue_invite_show(c, ReachOf(c), i).req)
    /\ batch' = [batch EXCEPT !.issued = IF last'.res = "Response" THEN @ + 1 ELSE @]
UpdateCredCounted ==
    /\ Idle /\ UNCHANGED <<held, batch, service>>
    /\ \E c \in BatchCredentials, i \in ClientShares :
        handle_update_cred(update_cred_request(c, c.key, i).req)
RotateLoxKeysBatch ==
    Len(old_lox_keys) < MaxBatchRotations
        /\ rotate_lox_keys /\ UNCHANGED <<held, batch, service>>

NextBatch ==
    \/ IssueInviteCounted
    \/ UpdateCredCounted
    \/ CheckBlockageFollowed
    \/ HandleResponseFollowed
    \/ RotateLoxKeysBatch

SpecBatch == BatchInit /\ [][NextBatch]_vars

\* C37: handle_issue_invite returns at most n Responses to a credential with
\* invites_remaining = n and its successors: every Response spends the id
\* shown and issues a successor with one invitation less, and update_cred
\* issues a successor with the same invites_remaining.
C37_IssuanceBoundedByBatch ==
    /\ [](batch.issued <= batch.n)
    /\ [][(last' # last /\ last'.client = "none" /\ last'.res = "Response")
          => /\ last'.call = "handle_issue_invite"
                => /\ batch'.issued = batch.issued + 1
                   /\ last'.req.cred.invites_remaining >= 1
                   /\ last'.resp.mac.invites_remaining
                        = last'.req.cred.invites_remaining - 1
                   /\ last'.req.id \notin id_filter /\ last'.req.id \in id_filter'
             /\ last'.call = "handle_update_cred"
                => /\ batch'.issued = batch.issued
                   /\ last'.resp.mac.invites_remaining
                        = last'.req.cred.invites_remaining]_vars
\* The user has received the two invitations of a batch of two and brought
\* the credential to a new Lox key; handle_issue_invite refuses the credential
\* that is left, which has no invitation.
C37_Witness ==
    /\ batch.n = MaxBatch /\ batch.issued = MaxBatch
    /\ old_lox_keys # <<>> /\ held.lox.key = lox_key
    /\ held.lox.invites_remaining = 0
    /\ last.call = "handle_issue_invite" /\ last.res = "VerificationFailure"

\* ------------------------------------------------- LoxService (C38 - C39)
\* LoxPromiseRust::new_chained: both handlers are there.  state is the
\* open_invite State the resolve handler of redeem_invite has captured,
\* answer what the issuer returned for the request; the counters record how
\* often each handler ran, how often the State was passed to
\* open_invite::handle_response, and the calls made on the promise the
\* caller of redeem_invite passed.
LoxPromiseRust(state, answer) ==
    [resolve_handler |-> TRUE, reject_handler |-> TRUE, state |-> state,
     answer |-> answer, resolve_runs |-> 0, reject_runs |-> 0, passed |-> 0,
     resolved |-> 0, rejected |-> 0]
\* A handler that is running: Store is the call of the helper's Store from
\* store(), during which LoxData is borrowed; Notify is the call of Resolve
\* or Reject of the caller's promise.
Frame(p, handler, phase) == [promise |-> p, handler |-> handler, phase |-> phase]
\* The RefCell of a handler is mutably borrowed from the take() until the
\* match in consume_and_call ends, that is while the handler runs.
Borrowed(sv, p, handler) ==
    \E k \in DOMAIN sv.stack : sv.stack[k].promise = p /\ sv.stack[k].handler = handler
DataBorrowed(sv) == \E k \in DOMAIN sv.stack : sv.stack[k].phase = "Store"

\* A consume_and_call that leaves the handler in its cell.
consume_and_call_peek(cell, borrowed) ==
    IF borrowed THEN [rv |-> "NS_ERROR_FAILURE", cell |-> cell, run |-> FALSE]
    ELSE IF cell THEN [rv |-> "NS_OK", cell |-> cell, run |-> TRUE]
    ELSE [rv |-> "NS_ERROR_NOT_AVAILABLE", cell |-> cell, run |-> FALSE]

\* LoxPromiseRust::consume_and_call: cell is whether the handler is in its
\* cell; the result is the value returned, the cell after take() and whether
\* the handler is run.
consume_and_call(cell, borrowed) ==
    IF borrowed THEN [rv |-> "NS_ERROR_FAILURE", cell |-> cell, run |-> FALSE]
    ELSE IF cell THEN [rv |-> "NS_OK", cell |-> FALSE, run |-> TRUE]
    ELSE [rv |-> "NS_ERROR_NOT_AVAILABLE", cell |-> FALSE, run |-> FALSE]

Uuids == 1..MaxUuids
\* The ids handle_new_credential may store under when it does not look at
\* the keys of the map.
new_id_any(credentials) == Uuids

\* The ids the loop around Uuid::new_v4 can end with.
new_id(credentials) == Uuids \ DOMAIN credentials

\* HashMap::insert
MapInsert(map, k, v) == [j \in DOMAIN map \cup {k} |-> IF j = k THEN v ELSE map[j]]

\* LoxService::handle_new_credential: the result, LoxData after the call
\* and whether open_invite::handle_response was called.
handle_new_credential(data, borrowed, state, resp, id) ==
    IF borrowed
    THEN [res |-> "Err", why |-> "already borrowed", data |-> data, called |-> FALSE]
    ELSE IF data.pub_keys = 0
    THEN [res |-> "Err", why |-> "Public keys not available.", data |-> data,
          called |-> FALSE]
    ELSE LET r == open_invite_handle_response(state, resp, data.pub_keys)
         IN  IF r.res # "Ok"
             THEN [res |-> "Err", why |-> r.res, data |-> data, called |-> TRUE]
             ELSE [res |-> "Ok", why |-> id,
                   data |-> [data EXCEPT !.credentials = MapInsert(@, id, r.cred)],
                   called |-> TRUE]

\* The resolve handler of redeem_invite called with response_str: what it
\* does to LoxData and which call it makes on the caller's promise.
Garbage == [op |-> "garbage"]
redeem_invite_resolve(data, borrowed, state, response, id) ==
    IF response.op # "open_invite"
    THEN [data |-> data, called |-> FALSE, notify |-> "Reject", phase |-> "Notify"]
    ELSE LET h == handle_new_credential(data, borrowed, state, response, id)
         IN  IF h.res = "Ok"
             THEN [data |-> h.data, called |-> h.called, notify |-> "Resolve",
                   phase |-> "Store"]
             ELSE [data |-> h.data, called |-> h.called, notify |-> "Reject",
                   phase |-> "Notify"]

ServiceUnchanged == UNCHANGED <<today, issuer, advances, last, held, batch>>
Called(sv, p, name, s, rv) ==
    [sv EXCEPT !.calls = @ + 1, !.call = <<p, name, s>>, !.rv = rv]

\* LoxService::redeem_invite: the request open_invite::request builds is
\* handed to the helper with a new chained promise; the issuer handles it.
ServiceRedeemInvite ==
    /\ Len(service.promises) < MaxPromises
    /\ \E t \in Tokens :
        LET r == open_invite_request(t, 20 + Len(service.promises))
        IN  /\ handle_open_invite(r.req)
            /\ service' = [service EXCEPT
                             !.promises = Append(@, LoxPromiseRust(r.state, last'.resp)),
                             !.rv = "NS_OK"]
    /\ UNCHANGED <<held, batch>>

\* LoxPromiseRust::Resolve, called by the helper or from inside a handler
\* that is running, with the response of the issuer to this or to another
\* request or with a string that is no Response.
ServiceResolve ==
    /\ service.calls < MaxPromiseCalls /\ ServiceUnchanged
    /\ \E p \in DOMAIN service.promises,
          response \in {service.promises[q].answer : q \in DOMAIN service.promises}
                          \cup {Garbage},
          id \in new_id(service.data.credentials) :
        LET pr == service.promises[p]
            c == consume_and_call(pr.resolve_handler, Borrowed(service, p, "resolve"))
            b == redeem_invite_resolve(service.data, DataBorrowed(service), pr.state,
                                       response, id)
            sv == Called(service, p, "Resolve", response, c.rv)
        IN  service' =
                IF ~c.run THEN [sv EXCEPT !.promises[p].resolve_handler = c.cell]
                ELSE [sv EXCEPT
                        !.promises[p] =
                            [@ EXCEPT !.resolve_handler = c.cell,
                                      !.resolve_runs = @ + 1,
                                      !.passed = IF b.called THEN @ + 1 ELSE @,
                                      !.rejected = IF b.notify = "Reject" THEN @ + 1 ELSE @],
                        !.data = b.data,
                        !.stack = Append(@, Frame(p, "resolve", b.phase))]

\* LoxPromiseRust::Reject: the reject handler of a chained promise rejects
\* the caller's promise.
ServiceReject ==
    /\ service.calls < MaxPromiseCalls /\ ServiceUnchanged
    /\ \E p \in DOMAIN service.promises :
        LET pr == service.promises[p]
            c == consume_and_call(pr.reject_handler, Borrowed(service, p, "reject"))
            sv == Called(service, p, "Reject", Garbage, c.rv)
        IN  service' =
                IF ~c.run THEN [sv EXCEPT !.promises[p].reject_handler = c.cell]
                ELSE [sv EXCEPT
                        !.promises[p] =
                            [@ EXCEPT !.reject_handler = c.cell,
                                      !.reject_runs = @ + 1,
                                      !.rejected = @ + 1],
                        !.stack = Append(@, Frame(p, "reject", "Notify"))]

\* The helper's Store returns to the resolve handler that runs: LoxData is
\* no longer borrowed and the handler resolves the caller's promise.
ServiceStoreReturns ==
    /\ service.stack # <<>> /\ ServiceUnchanged
    /\ LET k == Len(service.stack)
           f == service.stack[k]
       IN  /\ f.phase = "Store"
           /\ service' = [service EXCEPT !.stack[k].phase = "Notify",
                                         !.promises[f.promise].resolved = @ + 1]

\* The caller's promise returns and the handler that runs ends: the borrow
\* of its cell ends and consume_and_call returns Ok.
ServiceHandlerReturns ==
    /\ service.stack # <<>> /\ ServiceUnchanged
    /\ LET k == Len(service.stack)
       IN  /\ service.stack[k].phase = "Notify"
           /\ service' = [service EXCEPT !.stack = SubSeq(@, 1, k - 1), !.rv = "NS_OK"]

\* LoxService::new with the helper set.  LoxData is the input of
\* handle_new_credential: no credentials, and the public keys not available
\* (LoxData::default(), which is what the service keeps: nothing in it sets
\* pub_keys), or the issuer's Lox key, or a key that is not the issuer's.
ServiceInit ==
    /\ IssuerInit /\ held = NoHeld /\ batch = NoBatch
    /\ \E k \in {0, 1, 2} : service = [NoService EXCEPT !.data.pub_keys = k]

NextService ==
    \/ ServiceRedeemInvite
    \/ ServiceResolve
    \/ ServiceReject
    \/ ServiceStoreReturns
    \/ ServiceHandlerReturns
    \/ RotateBridgedbKeys

SpecService == ServiceInit /\ [][NextService]_vars

\* No handler of a promise runs twice, and the State its resolve handler has
\* captured is passed to open_invite::handle_response at most once.
HandlersRunOnce ==
    \A p \in DOMAIN service.promises :
        /\ service.promises[p].resolve_runs <= 1
        /\ service.promises[p].reject_runs <= 1
        /\ service.promises[p].passed <= 1

\* A step that is a call of Resolve or Reject, and the cell the call is on.
PromiseCall == service'.calls = service.calls + 1
CellOf(pr, name) == IF name = "Resolve" THEN pr.resolve_handler ELSE pr.reject_handler
HandlerOf(name) == IF name = "Resolve" THEN "resolve" ELSE "reject"
\* The call returns rv and runs nothing: no handler starts, no counter moves
\* and LoxData stays as it is.
RunsNothing(rv) ==
    /\ service'.rv = rv
    /\ service'.promises = service.promises
    /\ service'.stack = service.stack
    /\ service'.data = service.data

\* A call whose handler has been taken returns NS_ERROR_NOT_AVAILABLE and
\* runs nothing.
TakenNotAvailable ==
    PromiseCall =>
        LET p == service'.call[1]
            name == service'.call[2]
        IN  ~CellOf(service.promises[p], name) => RunsNothing("NS_ERROR_NOT_AVAILABLE")

\* A call whose handler has been taken runs nothing; it returns
\* NS_ERROR_FAILURE when that handler is still running, the call being made
\* from inside it, and NS_ERROR_NOT_AVAILABLE when the handler has returned.
TakenRunsNothing ==
    PromiseCall =>
        LET p == service'.call[1]
            name == service'.call[2]
        IN  ~CellOf(service.promises[p], name) =>
                IF Borrowed(service, p, HandlerOf(name))
                THEN RunsNothing("NS_ERROR_FAILURE")
                ELSE RunsNothing("NS_ERROR_NOT_AVAILABLE")

\* C38 as stated: over any sequence of Resolve and Reject calls on a
\* LoxPromiseRust, re-entrant ones included, each handler runs at most once,
\* a call whose handler has already been taken returns
\* NS_ERROR_NOT_AVAILABLE and runs nothing, and the State the resolve handler
\* of redeem_invite has captured is passed to handle_response at most once.
C38_HandlersRunOnce == [][TakenNotAvailable]_vars /\ []HandlersRunOnce

\* C38 amended: each handler runs at most once and the captured State is
\* passed to handle_response at most once; a call whose handler has already
\* been taken runs nothing and returns NS_ERROR_NOT_AVAILABLE, except that a
\* call made from inside that same handler while it runs returns
\* NS_ERROR_FAILURE.
C38_HandlersRunOnceReentrant == [][TakenRunsNothing]_vars /\ []HandlersRunOnce

\* Both handlers of a promise have run, the State was passed to
\* handle_response, a call made from inside a handler was answered, and a
\* later call on the promise returned NS_ERROR_NOT_AVAILABLE.
C38_Witness ==
    /\ service.rv = "NS_ERROR_NOT_AVAILABLE"
    /\ service.stack # <<>>
    /\ \E p \in DOMAIN service.promises :
        /\ service.call[1] = p
        /\ service.promises[p].resolve_runs = 1
        /\ service.promises[p].reject_runs = 1
        /\ service.promises[p].passed = 1

\* The entries of LoxData.credentials stay: none is removed or overwritten.
CredentialsKept ==
    \A k \in DOMAIN service.data.credentials :
        /\ k \in DOMAIN service'.data.credentials
        /\ service'.data.credentials[k] = service.data.credentials[k]
\* A step in which a resolve handler of redeem_invite calls
\* handle_new_credential with the State of promise p and the Response resp.
NewCredentialCall(p, resp) ==
    /\ PromiseCall
    /\ service'.call = <<p, "Resolve", resp>>
    /\ service'.promises[p].resolve_runs = service.promises[p].resolve_runs + 1
    /\ resp.op = "open_invite"
\* open_invite::handle_response succeeds in the call.
NewCredentialVerifies(p, resp) ==
    /\ ~DataBorrowed(service)
    /\ service.data.pub_keys # 0
    /\ open_invite_handle_response(service.promises[p].state, resp,
                                   service.data.pub_keys).res = "Ok"
NewCredentialStep ==
    /\ CredentialsKept
    /\ service'.data.pub_keys = service.data.pub_keys
    /\ IF \E p \in DOMAIN service.promises :
              NewCredentialCall(p, service'.call[3])
              /\ NewCredentialVerifies(p, service'.call[3])
       THEN LET p == service'.call[1]
                r == open_invite_handle_response(service.promises[p].state,
                                                 service'.call[3], service.data.pub_keys)
            IN  \E id \in Uuids \ DOMAIN service.data.credentials :
                    /\ DOMAIN service'.data.credentials =
                           DOMAIN service.data.credentials \cup {id}
                    /\ service'.data.credentials[id] = r.cred
       ELSE service'.data = service.data

\* C39: handle_new_credential stores the new credential under an id that is
\* not a key of LoxData.credentials, so no completion of redeem_invite
\* overwrites or removes an entry; it adds exactly one entry when
\* open_invite::handle_response succeeds and leaves LoxData unchanged when
\* the public keys are not available or the response does not verify.
C39_NewCredentialUnderFreshId == [][NewCredentialStep]_vars

\* Two invitations have been redeemed: LoxData holds two credentials, and
\* the resolve handler that stored the second is running.
C39_Witness ==
    /\ Cardinality(DOMAIN service.data.credentials) = 2
    /\ service.stack # <<>>
    /\ service.stack[Len(service.stack)].phase = "Store"
    /\ \A p \in DOMAIN service.promises : service.promises[p].passed = 1

====
